---- MODULE Spec2Model ----
(***************************************************************************)
(* Model of the track-compatibility scoring engine of catchmyvibe          *)
(* (backend/recommend/engine.py, class RecommendationEngine).              *)
(*                                                                         *)
(* Number representation.                                                  *)
(*   - A score (a Python float in [0,1]) is an exact rational, written as  *)
(*     an integer count of 1/One: 1.0 is One, 0.5 is One \div 2.  One is   *)
(*     chosen so that every score the model can produce is a whole count.  *)
(*   - total_score is a sum of score * weight with the weights in          *)
(*     hundredths, so it is a count of 1/(100 * One).                      *)
(*   - A BPM is a whole number of beats per minute; bpm / 2 is kept exact  *)
(*     by comparing doubled quantities.                                    *)
(*   - An energy is a whole number of hundredths.  The difference of two   *)
(*     energies is the IEEE-754 double difference of the two decimals: it  *)
(*     is the exact difference, or lies just above or just below it (see   *)
(*     FloatSub).                                                          *)
(*   - A Python string is the tuple of its characters (Str).               *)
(***************************************************************************)
EXTENDS Integers, Sequences, FiniteSets, TLC

VARIABLES
    self,     \* the engine instance: its four weights and bpm_tolerance
    tracks,   \* the rows of the tracks table, in the order a query returns them
    pc,       \* "call" before the operation has run, the operation's name after
    args,     \* the arguments of the call
    ret,      \* what the call returned (None before it has run, or if it raised)
    raised,   \* the exception that left the call, "" if none did
    files,    \* the paths that exist on the local disk
    frame,    \* the locals of a call suspended at an await, None otherwise
    analysis_jobs  \* the job dictionary of the analysis routes, by job id

vars == <<self, tracks, pc, args, ret, raised, files, frame, analysis_jobs>>

\* Optional[T]: Python's None (SQL's NULL) is the empty tuple, a value x is
\* the one-element tuple <<x>>.
None == <<>>

Some(x) == <<x>>

IsNone(o) == Len(o) = 0

Val(o) == o[1]

\* analysis_jobs = {} when the routes module is loaded.
NoJobs == [ job_id \in {} |-> None ]

\* The exception np.dot raises.
ValueError == "ValueError"

\* The float 1.0, as a count of score units.
One == 12 * 100

\* n / d for a quotient that is a whole count; it has no value otherwise, so
\* that no score of the model is ever a truncated one.
ExactDiv(n, d) == CHOOSE q \in {n \div d} : q * d = n

\* k/10 as a score.
Tenths(k) == ExactDiv(One * k, 10)

Abs(x) == IF x < 0 THEN -x ELSE x

(***************************************************************************)
(* Strings                                                                 *)
(***************************************************************************)

\* The characters of each string literal the model uses.
Chars ==
       ("" :> <<>>)
    @@ ("1A" :> <<"1", "A">>)
    @@ ("2A" :> <<"2", "A">>)
    @@ ("3A" :> <<"3", "A">>)
    @@ ("4A" :> <<"4", "A">>)
    @@ ("5A" :> <<"5", "A">>)
    @@ ("6A" :> <<"6", "A">>)
    @@ ("7A" :> <<"7", "A">>)
    @@ ("8A" :> <<"8", "A">>)
    @@ ("9A" :> <<"9", "A">>)
    @@ ("10A" :> <<"1", "0", "A">>)
    @@ ("11A" :> <<"1", "1", "A">>)
    @@ ("12A" :> <<"1", "2", "A">>)
    @@ ("1B" :> <<"1", "B">>)
    @@ ("2B" :> <<"2", "B">>)
    @@ ("3B" :> <<"3", "B">>)
    @@ ("4B" :> <<"4", "B">>)
    @@ ("5B" :> <<"5", "B">>)
    @@ ("6B" :> <<"6", "B">>)
    @@ ("7B" :> <<"7", "B">>)
    @@ ("8B" :> <<"8", "B">>)
    @@ ("9B" :> <<"9", "B">>)
    @@ ("10B" :> <<"1", "0", "B">>)
    @@ ("11B" :> <<"1", "1", "B">>)
    @@ ("12B" :> <<"1", "2", "B">>)
    @@ ("8b" :> <<"8", "b">>)
    @@ ("8a" :> <<"8", "a">>)
    @@ ("9b" :> <<"9", "b">>)
    @@ ("3a" :> <<"3", "a">>)
    @@ ("12a" :> <<"1", "2", "a">>)
    @@ ("13A" :> <<"1", "3", "A">>)
    @@ ("13B" :> <<"1", "3", "B">>)
    @@ ("Am" :> <<"A", "m">>)
    @@ ("C" :> <<"C">>)

Str(s) == Chars[s]

\* str.upper(), character by character.
UpperChar(c) ==
    CASE c = "a" -> "A"
      [] c = "b" -> "B"
      [] c = "m" -> "M"
      [] OTHER -> c

upper(s) == [i \in DOMAIN s |-> UpperChar(s[i])]

\* s[:-1]
DropLast(s) == IF Len(s) = 0 THEN <<>> ELSE SubSeq(s, 1, Len(s) - 1)

\* `not key` for an Optional[str]: None and the empty string are false.
NoKey(key) == IsNone(key) \/ Val(key) = ""

(***************************************************************************)
(* RecommendationEngine.CAMELOT_ADJACENT                                   *)
(***************************************************************************)
CAMELOT_ADJACENT ==
       ("1A" :> <<"12A", "2A", "1B">>)
    @@ ("2A" :> <<"1A", "3A", "2B">>)
    @@ ("3A" :> <<"2A", "4A", "3B">>)
    @@ ("4A" :> <<"3A", "5A", "4B">>)
    @@ ("5A" :> <<"4A", "6A", "5B">>)
    @@ ("6A" :> <<"5A", "7A", "6B">>)
    @@ ("7A" :> <<"6A", "8A", "7B">>)
    @@ ("8A" :> <<"7A", "9A", "8B">>)
    @@ ("9A" :> <<"8A", "10A", "9B">>)
    @@ ("10A" :> <<"9A", "11A", "10B">>)
    @@ ("11A" :> <<"10A", "12A", "11B">>)
    @@ ("12A" :> <<"11A", "1A", "12B">>)
    @@ ("1B" :> <<"12B", "2B", "1A">>)
    @@ ("2B" :> <<"1B", "3B", "2A">>)
    @@ ("3B" :> <<"2B", "4B", "3A">>)
    @@ ("4B" :> <<"3B", "5B", "4A">>)
    @@ ("5B" :> <<"4B", "6B", "5A">>)
    @@ ("6B" :> <<"5B", "7B", "6A">>)
    @@ ("7B" :> <<"6B", "8B", "7A">>)
    @@ ("8B" :> <<"7B", "9B", "8A">>)
    @@ ("9B" :> <<"8B", "10B", "9A">>)
    @@ ("10B" :> <<"9B", "11B", "10A">>)
    @@ ("11B" :> <<"10B", "12B", "11A">>)
    @@ ("12B" :> <<"11B", "1B", "12A">>)

\* CAMELOT_ADJACENT.get(key, []) without the last entry (the relative
\* major) of the lists of the minor keys.
CamelotGetNoRelativeOfMinor(key) ==
    IF \E s \in DOMAIN CAMELOT_ADJACENT : Str(s) = key
    THEN LET s == CHOOSE s \in DOMAIN CAMELOT_ADJACENT : Str(s) = key
             n == IF key[Len(key)] = "A" THEN 2 ELSE 3
         IN  [i \in 1..n |-> Str(CAMELOT_ADJACENT[s][i])]
    ELSE <<>>

\* CAMELOT_ADJACENT.get(key, []) for a key given by its characters.
CamelotGet(key) ==
    IF \E s \in DOMAIN CAMELOT_ADJACENT : Str(s) = key
    THEN LET s == CHOOSE s \in DOMAIN CAMELOT_ADJACENT : Str(s) = key
         IN  [i \in DOMAIN CAMELOT_ADJACENT[s] |-> Str(CAMELOT_ADJACENT[s][i])]
    ELSE <<>>

\* x in list
InList(x, list) == \E i \in DOMAIN list : list[i] = x

(***************************************************************************)
(* _score_key                                                              *)
(***************************************************************************)
\* _score_key with the same-number rule tried before the adjacency rule.
ScoreKeySameNumberFirst(current, candidate) ==
    IF NoKey(current) \/ NoKey(candidate)
    THEN Tenths(5)
    ELSE LET current_key   == upper(Str(Val(current)))
             candidate_key == upper(Str(Val(candidate)))
             adjacent      == CamelotGet(current_key)
         IN  IF current_key = candidate_key THEN Tenths(10)
             ELSE IF DropLast(current_key) = DropLast(candidate_key) THEN Tenths(7)
             ELSE IF InList(candidate_key, adjacent) THEN Tenths(9)
             ELSE IF \E i \in DOMAIN adjacent :
                        InList(candidate_key, CamelotGet(adjacent[i]))
                  THEN Tenths(5)
             ELSE Tenths(2)

_score_key(current, candidate) ==
    IF NoKey(current) \/ NoKey(candidate)
    THEN Tenths(5)
    ELSE LET current_key   == upper(Str(Val(current)))
             candidate_key == upper(Str(Val(candidate)))
             adjacent      == CamelotGet(current_key)
         IN  IF current_key = candidate_key THEN Tenths(10)
             ELSE IF InList(candidate_key, adjacent) THEN Tenths(9)
             ELSE IF DropLast(current_key) = DropLast(candidate_key) THEN Tenths(7)
             ELSE IF \E i \in DOMAIN adjacent :
                        InList(candidate_key, CamelotGet(adjacent[i]))
                  THEN Tenths(5)
             ELSE Tenths(2)

(***************************************************************************)
(* _score_bpm, _get_compatible_bpm_ranges                                  *)
(***************************************************************************)

\* 1.0 - diff / tolerance for diff = num / den, as a score.
LinearDecay(num, den, tolerance) ==
    ExactDiv(One * (den * tolerance - num), den * tolerance)

\* 0.8 * x
Scale08(x) == ExactDiv(8 * x, 10)

\* `not bpm` for an Optional[float]: None and 0 are false.
NoBpm(bpm) == IsNone(bpm) \/ Val(bpm) = 0

\* _score_bpm without the 0.8 factor on half-time and double-time matches.
ScoreBpmNoPenalty(tolerance, current_bpm, candidate_bpm) ==
    IF NoBpm(current_bpm) \/ NoBpm(candidate_bpm)
    THEN Tenths(5)
    ELSE LET diff         == Abs(Val(current_bpm) - Val(candidate_bpm))
             half_diff2   == Abs(Val(current_bpm) - 2 * Val(candidate_bpm))
             double_diff  == Abs(Val(current_bpm) * 2 - Val(candidate_bpm))
         IN  IF diff <= tolerance
             THEN LinearDecay(diff, 1, tolerance)
             ELSE IF half_diff2 <= 2 * tolerance
             THEN LinearDecay(half_diff2, 2, tolerance)
             ELSE IF double_diff <= tolerance
             THEN LinearDecay(double_diff, 1, tolerance)
             ELSE 0

_score_bpm(tolerance, current_bpm, candidate_bpm) ==
    IF NoBpm(current_bpm) \/ NoBpm(candidate_bpm)
    THEN Tenths(5)
    ELSE LET diff         == Abs(Val(current_bpm) - Val(candidate_bpm))
             \* twice abs(current_bpm / 2 - candidate_bpm)
             half_diff2   == Abs(Val(current_bpm) - 2 * Val(candidate_bpm))
             double_diff  == Abs(Val(current_bpm) * 2 - Val(candidate_bpm))
         IN  IF diff <= tolerance
             THEN LinearDecay(diff, 1, tolerance)
             ELSE IF half_diff2 <= 2 * tolerance
             THEN Scale08(LinearDecay(half_diff2, 2, tolerance))
             ELSE IF double_diff <= tolerance
             THEN Scale08(LinearDecay(double_diff, 1, tolerance))
             ELSE 0

\* The ranges without the bpm > 120 and bpm < 100 conditions.
RangesUnconditional(tolerance, bpm) ==
    << <<2 * bpm - 2 * tolerance, 2 * bpm + 2 * tolerance>>,
       <<bpm - 2 * tolerance, bpm + 2 * tolerance>>,
       <<4 * bpm - 2 * tolerance, 4 * bpm + 2 * tolerance>> >>

\* The ranges as (low, high) pairs of DOUBLED bounds, so that bpm / 2 stays
\* a whole number: the range [low, high] is <<2 * low, 2 * high>>.
_get_compatible_bpm_ranges(tolerance, bpm) ==
    LET direct == << <<2 * bpm - 2 * tolerance, 2 * bpm + 2 * tolerance>> >>
        half   == IF bpm > 120
                  THEN << <<bpm - 2 * tolerance, bpm + 2 * tolerance>> >>
                  ELSE <<>>
        double == IF bpm < 100
                  THEN << <<4 * bpm - 2 * tolerance, 4 * bpm + 2 * tolerance>> >>
                  ELSE <<>>
    IN  direct \o half \o double

(***************************************************************************)
(* _score_energy                                                           *)
(***************************************************************************)

\* The pairs <<current, candidate>> of energies (in hundredths) whose double
\* difference candidate - current is strictly greater than the double of
\* the decimal difference, among the energies of EnergyValues whose decimal
\* difference is a band boundary (10, 20, 30 or 40 hundredths): 0.9 - 0.6
\* is 0.30000000000000004, 0.1 - 0.3 is -0.19999999999999998.
RoundedAbove ==
    { <<30, 10>>, <<60, 50>>, <<60, 90>>, <<70, 30>>,
      <<70, 50>>, <<70, 60>>, <<70, 90>> }

\* b - a is the negation of a - b in IEEE-754 arithmetic.
RoundedBelow == { <<p[2], p[1]>> : p \in RoundedAbove }

\* candidate_energy - current_energy.  A difference is counted in thirds of
\* a hundredth: 3 * (the decimal difference), plus one when the double lies
\* above the decimal and minus one when it lies below.
FloatSub(candidate_energy, current_energy) ==
    3 * (candidate_energy - current_energy)
    + (IF <<current_energy, candidate_energy>> \in RoundedAbove THEN 1
       ELSE IF <<current_energy, candidate_energy>> \in RoundedBelow THEN -1
       ELSE 0)

\* The float literal h/100 on the scale of FloatSub.
Lit(h) == 3 * h

\* _score_energy with < for <= in the "maintain" bands.
ScoreEnergyMaintainStrict(current_energy, candidate_energy, direction) ==
    IF IsNone(current_energy) \/ IsNone(candidate_energy)
    THEN Tenths(5)
    ELSE LET diff     == FloatSub(Val(candidate_energy), Val(current_energy))
             abs_diff == Abs(diff)
         IN  IF direction = "build"
             THEN IF 0 <= diff /\ diff <= Lit(20) THEN Tenths(10)
                  ELSE IF Lit(20) < diff /\ diff <= Lit(40) THEN Tenths(7)
                  ELSE IF Lit(-10) <= diff /\ diff < 0 THEN Tenths(5)
                  ELSE Tenths(2)
             ELSE IF direction = "drop"
             THEN IF Lit(-20) <= diff /\ diff <= 0 THEN Tenths(10)
                  ELSE IF Lit(-40) <= diff /\ diff < Lit(-20) THEN Tenths(7)
                  ELSE IF 0 < diff /\ diff <= Lit(10) THEN Tenths(5)
                  ELSE Tenths(2)
             ELSE IF abs_diff < Lit(10) THEN Tenths(10)
                  ELSE IF abs_diff < Lit(20) THEN Tenths(7)
                  ELSE IF abs_diff < Lit(30) THEN Tenths(4)
                  ELSE Tenths(2)

\* _score_energy with -0.4 < diff for -0.4 <= diff in the "drop" bands.
ScoreEnergyDropStrict(current_energy, candidate_energy, direction) ==
    IF IsNone(current_energy) \/ IsNone(candidate_energy)
    THEN Tenths(5)
    ELSE LET diff     == FloatSub(Val(candidate_energy), Val(current_energy))
             abs_diff == Abs(diff)
         IN  IF direction = "build"
             THEN IF 0 <= diff /\ diff <= Lit(20) THEN Tenths(10)
                  ELSE IF Lit(20) < diff /\ diff <= Lit(40) THEN Tenths(7)
                  ELSE IF Lit(-10) <= diff /\ diff < 0 THEN Tenths(5)
                  ELSE Tenths(2)
             ELSE IF direction = "drop"
             THEN IF Lit(-20) <= diff /\ diff <= 0 THEN Tenths(10)
                  ELSE IF Lit(-40) < diff /\ diff < Lit(-20) THEN Tenths(7)
                  ELSE IF 0 < diff /\ diff <= Lit(10) THEN Tenths(5)
                  ELSE Tenths(2)
             ELSE IF abs_diff <= Lit(10) THEN Tenths(10)
                  ELSE IF abs_diff <= Lit(20) THEN Tenths(7)
                  ELSE IF abs_diff <= Lit(30) THEN Tenths(4)
                  ELSE Tenths(2)

_score_energy(current_energy, candidate_energy, direction) ==
    IF IsNone(current_energy) \/ IsNone(candidate_energy)
    THEN Tenths(5)
    ELSE LET diff     == FloatSub(Val(candidate_energy), Val(current_energy))
             abs_diff == Abs(diff)
         IN  IF direction = "build"
             THEN IF 0 <= diff /\ diff <= Lit(20) THEN Tenths(10)
                  ELSE IF Lit(20) < diff /\ diff <= Lit(40) THEN Tenths(7)
                  ELSE IF Lit(-10) <= diff /\ diff < 0 THEN Tenths(5)
                  ELSE Tenths(2)
             ELSE IF direction = "drop"
             THEN IF Lit(-20) <= diff /\ diff <= 0 THEN Tenths(10)
                  ELSE IF Lit(-40) <= diff /\ diff < Lit(-20) THEN Tenths(7)
                  ELSE IF 0 < diff /\ diff <= Lit(10) THEN Tenths(5)
                  ELSE Tenths(2)
             ELSE IF abs_diff <= Lit(10) THEN Tenths(10)
                  ELSE IF abs_diff <= Lit(20) THEN Tenths(7)
                  ELSE IF abs_diff <= Lit(30) THEN Tenths(4)
                  ELSE Tenths(2)

(***************************************************************************)
(* _score_embedding                                                        *)
(***************************************************************************)

\* `not embedding` for an Optional[list[float]]: None and [] are false.
NoEmbedding(e) == IsNone(e) \/ Len(Val(e)) = 0

RECURSIVE Dot(_, _)
\* np.dot of two vectors of the same length.
Dot(u, v) == IF Len(u) = 0 THEN 0 ELSE u[1] * v[1] + Dot(Tail(u), Tail(v))

\* np.linalg.norm; the embeddings of the model have whole norms.
Norm(v) == CHOOSE n \in 0..Dot(v, v) : n * n = Dot(v, v)

\* _score_embedding without the check of the candidate's embedding: the
\* array of a missing embedding has no length to match.
RaisesOnMissingCandidate(current_embedding, candidate_embedding) ==
    /\ ~NoEmbedding(current_embedding)
    /\ \/ NoEmbedding(candidate_embedding)
       \/ Len(Val(current_embedding)) # Len(Val(candidate_embedding))

\* np.dot raises ValueError on two 1-d arrays of different lengths.
_score_embedding_raises(current_embedding, candidate_embedding) ==
    /\ ~NoEmbedding(current_embedding)
    /\ ~NoEmbedding(candidate_embedding)
    /\ Len(Val(current_embedding)) # Len(Val(candidate_embedding))

\* _score_embedding giving a missing embedding the score 0.
ScoreEmbeddingMissingIsZero(current_embedding, candidate_embedding) ==
    IF NoEmbedding(current_embedding) \/ NoEmbedding(candidate_embedding)
    THEN 0
    ELSE LET current   == Val(current_embedding)
             candidate == Val(candidate_embedding)
             dot       == Dot(current, candidate)
             norm      == Norm(current) * Norm(candidate)
         IN  IF norm = 0 THEN Tenths(5)
             ELSE ExactDiv(One * (dot + norm), 2 * norm)

\* The value returned when _score_embedding does not raise.
_score_embedding(current_embedding, candidate_embedding) ==
    IF NoEmbedding(current_embedding) \/ NoEmbedding(candidate_embedding)
    THEN Tenths(5)
    ELSE LET current   == Val(current_embedding)
             candidate == Val(candidate_embedding)
             dot       == Dot(current, candidate)
             norm      == Norm(current) * Norm(candidate)
         IN  IF norm = 0 THEN Tenths(5)
             ELSE ExactDiv(One * (dot + norm), 2 * norm)

(***************************************************************************)
(* _calculate_scores                                                       *)
(***************************************************************************)

\* The only call of _calculate_scores that can raise is _score_embedding.
_calculate_scores_raises(current, candidate) ==
    _score_embedding_raises(current.embedding, candidate.embedding)

\* The dict returned when _calculate_scores does not raise.
_calculate_scores(engine, current, candidate, energy_direction) ==
    LET bpm_score       == _score_bpm(engine.bpm_tolerance, current.bpm, candidate.bpm)
        key_score       == _score_key(current.key, candidate.key)
        energy_score    == _score_energy(current.energy, candidate.energy,
                                         energy_direction)
        embedding_score == _score_embedding(current.embedding, candidate.embedding)
    IN  [ bpm       |-> bpm_score,
          key       |-> key_score,
          energy    |-> energy_score,
          embedding |-> embedding_score,
          total     |-> bpm_score * engine.bpm_weight
                        + key_score * engine.key_weight
                        + energy_score * engine.energy_weight
                        + embedding_score * engine.embedding_weight ]

(***************************************************************************)
(* get_recommendations                                                     *)
(***************************************************************************)

\* Only Track.bpm >= low.
InRangeLowerOnly(bpm, range) ==
    /\ ~IsNone(bpm)
    /\ 2 * Val(bpm) >= range[1]

\* Track.bpm >= low AND Track.bpm <= high for a range of doubled bounds; a
\* comparison with a NULL bpm is not true.
InRange(bpm, range) ==
    /\ ~IsNone(bpm)
    /\ 2 * Val(bpm) >= range[1]
    /\ 2 * Val(bpm) <= range[2]

\* The WHERE clauses without exclude_ids.add(current_track.id).
SelectedKeepsCurrent(engine, current_track, exclude_track_ids, row) ==
    LET bpm_ranges == _get_compatible_bpm_ranges(engine.bpm_tolerance,
                                                 Val(current_track.bpm))
    IN  /\ row.id \notin exclude_track_ids
        /\ ~NoBpm(current_track.bpm) =>
               \E i \in DOMAIN bpm_ranges : InRange(row.bpm, bpm_ranges[i])

\* The WHERE clauses of stmt, for one row.
Selected(engine, current_track, exclude_track_ids, row) ==
    LET exclude_ids == exclude_track_ids \cup {current_track.id}
        bpm_ranges  == _get_compatible_bpm_ranges(engine.bpm_tolerance,
                                                  Val(current_track.bpm))
    IN  /\ row.id \notin exclude_ids
        /\ ~NoBpm(current_track.bpm) =>
               \E i \in DOMAIN bpm_ranges : InRange(row.bpm, bpm_ranges[i])

\* result.scalars().all()
Candidates(engine, rows, current_track, exclude_track_ids) ==
    SelectSeq(rows, LAMBDA row :
                        Selected(engine, current_track, exclude_track_ids, row))

TrackRecommendation(candidate, scores) ==
    [ track           |-> candidate,
      total_score     |-> scores.total,
      bpm_score       |-> scores.bpm,
      key_score       |-> scores.key,
      energy_score    |-> scores.energy,
      embedding_score |-> scores.embedding ]

RECURSIVE SortAscendingThenReverse(_)
\* A sort that puts an element before the earlier elements of equal total.
SortAscendingThenReverse(recs) ==
    IF Len(recs) = 0 THEN <<>>
    ELSE LET sorted == SortAscendingThenReverse(SubSeq(recs, 1, Len(recs) - 1))
             r      == recs[Len(recs)]
             k      == Cardinality({ i \in DOMAIN sorted :
                                       sorted[i].total_score > r.total_score })
         IN  SubSeq(sorted, 1, k) \o <<r>> \o SubSeq(sorted, k + 1, Len(sorted))

RECURSIVE SortByTotalDescending(_)
\* recommendations.sort(key=lambda r: r.total_score, reverse=True): list.sort
\* is stable, also when reversed, so each element goes behind the earlier
\* elements whose total_score is at least its own.
SortByTotalDescending(recs) ==
    IF Len(recs) = 0 THEN <<>>
    ELSE LET sorted == SortByTotalDescending(SubSeq(recs, 1, Len(recs) - 1))
             r      == recs[Len(recs)]
             k      == Cardinality({ i \in DOMAIN sorted :
                                       sorted[i].total_score >= r.total_score })
         IN  SubSeq(sorted, 1, k) \o <<r>> \o SubSeq(sorted, k + 1, Len(sorted))

\* recommendations[:limit] for limit >= 0
Take(recs, limit) ==
    SubSeq(recs, 1, IF limit < Len(recs) THEN limit ELSE Len(recs))

get_recommendations_raises(engine, rows, current_track, exclude_track_ids) ==
    LET candidates == Candidates(engine, rows, current_track, exclude_track_ids)
    IN  \E i \in DOMAIN candidates :
            _calculate_scores_raises(current_track, candidates[i])

\* The list returned when get_recommendations does not raise.
get_recommendations(engine, rows, current_track, limit, energy_direction, exclude_track_ids) ==
    LET candidates == Candidates(engine, rows, current_track, exclude_track_ids)
        recommendations ==
            [ i \in DOMAIN candidates |->
                TrackRecommendation(
                    candidates[i],
                    _calculate_scores(engine, current_track, candidates[i],
                                      energy_direction)) ]
    IN  Take(SortByTotalDescending(recommendations), limit)

(***************************************************************************)
(* The engine instances, the rows and the arguments of the model           *)
(***************************************************************************)

\* RecommendationEngine(): the defaults of __init__, the weights in hundredths.
DefaultEngine ==
    [ bpm_weight |-> 25, key_weight |-> 30, energy_weight |-> 20,
      embedding_weight |-> 25, bpm_tolerance |-> 6 ]

\* RecommendationEngine(0.40, 0.30, 0.20, 0.10, 4.0)
TightEngine ==
    [ bpm_weight |-> 40, key_weight |-> 30, energy_weight |-> 20,
      embedding_weight |-> 10, bpm_tolerance |-> 4 ]

Engines == {DefaultEngine, TightEngine}

Track(id, bpm, key, energy, embedding) ==
    [ id |-> id, bpm |-> bpm, key |-> key, energy |-> energy,
      embedding |-> embedding ]

\* The tracks of the recommendation scenario, a half-time track, a track that
\* has not been analysed and a track at half the tempo of C.
TrackCur == Track("cur", Some(128), Some("8B"), Some(60), None)
TrackA   == Track("A", Some(128), Some("8B"), Some(62), None)
TrackB   == Track("B", Some(128), Some("3A"), Some(90), None)
TrackC   == Track("C", Some(200), Some("8B"), Some(60), None)
TrackD   == Track("D", Some(64), Some("8a"), Some(50), Some(<<1, 0>>))
TrackE   == Track("E", None, None, None, None)
TrackF   == Track("F", Some(100), Some("9b"), Some(70), Some(<<4, 3>>))

Pool == {TrackCur, TrackA, TrackB, TrackC, TrackD, TrackE, TrackF}

\* The longest tracks table.
MaxTracks == 3

\* The largest limit of a call.
MaxLimit == 3

\* The most ids in exclude_track_ids.
MaxExclude == 1

Injective(seq) == \A i, j \in DOMAIN seq : seq[i] = seq[j] => i = j

\* A tracks table holds each track once (id is its primary key).
Catalogues ==
    { rows \in UNION { [1..n -> Pool] : n \in 0..MaxTracks } : Injective(rows) }

Directions == {"build", "maintain", "drop"}

ExcludeSets ==
    { ids \in SUBSET { t.id : t \in Pool } : Cardinality(ids) <= MaxExclude }

(***************************************************************************)
(* Spec: get_recommendations over a tracks table                           *)
(***************************************************************************)
Init ==
    /\ self \in Engines
    /\ tracks \in Catalogues
    /\ pc = "call"
    /\ args = None
    /\ ret = None
    /\ raised = ""
    /\ files = {}
    /\ frame = None
    /\ analysis_jobs = NoJobs

GetRecommendations ==
    /\ pc = "call"
    /\ \E current_track \in Pool, limit \in 0..MaxLimit,
          energy_direction \in Directions, exclude_track_ids \in ExcludeSets :
          /\ args' = [ current_track     |-> current_track,
                       limit             |-> limit,
                       energy_direction  |-> energy_direction,
                       exclude_track_ids |-> exclude_track_ids ]
          /\ IF get_recommendations_raises(self, tracks, current_track,
                                           exclude_track_ids)
             THEN ret' = None /\ raised' = ValueError
             ELSE /\ ret' = get_recommendations(self, tracks, current_track, limit,
                                                energy_direction, exclude_track_ids)
                  /\ raised' = ""
    /\ pc' = "get_recommendations"
    /\ UNCHANGED <<self, tracks, files, frame, analysis_jobs>>

Next == GetRecommendations

Spec == Init /\ [][Next]_vars

(***************************************************************************)
(* SpecKey: _score_key on a pair of keys                                   *)
(***************************************************************************)

\* None, the empty string, the 24 Camelot keys, lower-case spellings, and
\* strings that are not on the wheel.
KeyInputs == {None} \cup { Some(s) : s \in DOMAIN Chars }

InitKey ==
    /\ self = DefaultEngine
    /\ tracks = <<>>
    /\ pc = "call"
    /\ args \in [ current_key : KeyInputs, candidate_key : KeyInputs ]
    /\ ret = None
    /\ raised = ""
    /\ files = {}
    /\ frame = None
    /\ analysis_jobs = NoJobs

ScoreKey ==
    /\ pc = "call"
    /\ ret' = _score_key(args.current_key, args.candidate_key)
    /\ pc' = "_score_key"
    /\ UNCHANGED <<self, tracks, args, raised, files, frame, analysis_jobs>>

NextKey == ScoreKey

SpecKey == InitKey /\ [][NextKey]_vars

(***************************************************************************)
(* SpecBpm: _score_bpm on a pair of tempos                                 *)
(***************************************************************************)

\* The fastest current track.
MaxCurrentBpm == 140

\* The fastest candidate track.
MaxCandidateBpm == 210

OptionalBpm(max) == {None} \cup { Some(b) : b \in 0..max }

InitBpm ==
    /\ self \in Engines
    /\ tracks = <<>>
    /\ pc = "call"
    /\ args \in [ current_bpm : OptionalBpm(MaxCurrentBpm),
                  candidate_bpm : OptionalBpm(MaxCandidateBpm) ]
    /\ ret = None
    /\ raised = ""
    /\ files = {}
    /\ frame = None
    /\ analysis_jobs = NoJobs

ScoreBpm ==
    /\ pc = "call"
    /\ ret' = _score_bpm(self.bpm_tolerance, args.current_bpm, args.candidate_bpm)
    /\ pc' = "_score_bpm"
    /\ UNCHANGED <<self, tracks, args, raised, files, frame, analysis_jobs>>

NextBpm == ScoreBpm

SpecBpm == InitBpm /\ [][NextBpm]_vars

(***************************************************************************)
(* SpecEnergy: _score_energy on a pair of energies                         *)
(***************************************************************************)

\* Energies in hundredths; their differences hit and straddle every band
\* boundary of _score_energy.
EnergyValues == {0, 10, 30, 50, 60, 62, 70, 90}

OptionalEnergy == {None} \cup { Some(e) : e \in EnergyValues }

InitEnergy ==
    /\ self = DefaultEngine
    /\ tracks = <<>>
    /\ pc = "call"
    /\ args \in [ current_energy : OptionalEnergy,
                  candidate_energy : OptionalEnergy,
                  direction : Directions ]
    /\ ret = None
    /\ raised = ""
    /\ files = {}
    /\ frame = None
    /\ analysis_jobs = NoJobs

ScoreEnergy ==
    /\ pc = "call"
    /\ ret' = _score_energy(args.current_energy, args.candidate_energy,
                            args.direction)
    /\ pc' = "_score_energy"
    /\ UNCHANGED <<self, tracks, args, raised, files, frame, analysis_jobs>>

NextEnergy == ScoreEnergy

SpecEnergy == InitEnergy /\ [][NextEnergy]_vars

(***************************************************************************)
(* SpecScores: _calculate_scores on a pair of tracks                       *)
(***************************************************************************)

\* The current track of the scenario with an embedding, and every way of
\* leaving fields out of it.
CurrentTracks ==
    { Track("cur", bpm, key, energy, embedding) :
        bpm \in {None, Some(128)}, key \in {None, Some("8B")},
        energy \in {None, Some(60)}, embedding \in {None, Some(<<1, 0>>)} }

\* Candidates with each field missing, empty or zero, or known; <<1>> is an
\* embedding of another length than the others.
CandidateTracks ==
    { Track("cand", bpm, key, energy, embedding) :
        bpm \in {None, Some(0), Some(128), Some(131), Some(64)},
        key \in {None, Some(""), Some("8B"), Some("3A")},
        energy \in {None, Some(62), Some(90)},
        embedding \in {None, Some(<<>>), Some(<<0, 0>>), Some(<<1, 0>>),
                       Some(<<3, 4>>), Some(<<1>>)} }

InitScores ==
    /\ self \in Engines
    /\ tracks = <<>>
    /\ pc = "call"
    /\ args \in [ current : CurrentTracks, candidate : CandidateTracks,
                  energy_direction : Directions ]
    /\ ret = None
    /\ raised = ""
    /\ files = {}
    /\ frame = None
    /\ analysis_jobs = NoJobs

CalculateScores ==
    /\ pc = "call"
    /\ IF _calculate_scores_raises(args.current, args.candidate)
       THEN ret' = None /\ raised' = ValueError
       ELSE /\ ret' = _calculate_scores(self, args.current, args.candidate,
                                        args.energy_direction)
            /\ raised' = ""
    /\ pc' = "_calculate_scores"
    /\ UNCHANGED <<self, tracks, args, files, frame, analysis_jobs>>

NextScores == CalculateScores

SpecScores == InitScores /\ [][NextScores]_vars

(***************************************************************************)
(* Properties of get_recommendations (Spec)                                *)
(***************************************************************************)

\* The call has returned a list.
Returned == pc = "get_recommendations" /\ raised = ""

\* The rows the candidate query of the call returned, in its order.
Cands ==
    Candidates(self, tracks, args.current_track, args.exclude_track_ids)

CandIndex(id) == CHOOSE k \in DOMAIN Cands : Cands[k].id = id

TotalOf(row) ==
    _calculate_scores(self, args.current_track, row, args.energy_direction).total

\* An entry of total t1 that the query returned at place k1 is ranked before
\* one of total t2 returned at place k2.
RankedBefore(t1, k1, t2, k2) == t1 > t2 \/ (t1 = t2 /\ k1 < k2)

Min(a, b) == IF a < b THEN a ELSE b

\* C1: the result holds scored candidates in descending total_score, equal
\* totals in the order of the candidate query; it is the first `limit`
\* entries of that ranking (every candidate left out ranks behind every
\* entry returned), so it has min(limit, number of candidates) entries.
C1_RankedStableTruncated ==
    Returned =>
        /\ Len(ret) = Min(args.limit, Len(Cands))
        /\ \A i \in DOMAIN ret :
              \E k \in DOMAIN Cands :
                  /\ Cands[k] = ret[i].track
                  /\ ret[i].total_score = TotalOf(Cands[k])
        /\ \A i, j \in DOMAIN ret :
              i < j => RankedBefore(ret[i].total_score, CandIndex(ret[i].track.id),
                                    ret[j].total_score, CandIndex(ret[j].track.id))
        /\ \A k \in DOMAIN Cands :
              (\A i \in DOMAIN ret : ret[i].track.id # Cands[k].id) =>
                  \A i \in DOMAIN ret :
                      RankedBefore(ret[i].total_score, CandIndex(ret[i].track.id),
                                   TotalOf(Cands[k]), k)

\* Three candidates, the two best with equal totals, the third cut by limit.
C1_Witness ==
    /\ Returned
    /\ Len(Cands) = 3
    /\ args.limit = 2
    /\ Len(ret) = 2
    /\ ret[1].total_score = ret[2].total_score
    /\ \E k \in DOMAIN Cands : TotalOf(Cands[k]) < ret[2].total_score

\* The row's BPM d is known and lies in [c-T, c+T], or in [c/2-T, c/2+T]
\* with c > 120, or in [2c-T, 2c+T] with c < 100.
InClaimedRange(row, c, T) ==
    /\ ~IsNone(row.bpm)
    /\ LET d == Val(row.bpm)
       IN  \/ (c - T <= d /\ d <= c + T)
           \/ (c > 120 /\ c - 2 * T <= 2 * d /\ 2 * d <= c + 2 * T)
           \/ (c < 100 /\ 2 * c - T <= d /\ d <= 2 * c + T)

\* C2: with the current BPM known and non-zero, every candidate that is
\* scored, and so every track returned, has its BPM in the direct range, or
\* in the half-time range when c > 120, or in the double-time range when
\* c < 100; with no row in any of them the call returns [] and raises nothing.
C2_BpmPrefilter ==
    (pc = "get_recommendations" /\ ~NoBpm(args.current_track.bpm)) =>
        LET c == Val(args.current_track.bpm)
            T == self.bpm_tolerance
        IN  /\ \A k \in DOMAIN Cands : InClaimedRange(Cands[k], c, T)
            /\ raised = "" =>
                   \A i \in DOMAIN ret : InClaimedRange(ret[i].track, c, T)
            /\ (\A k \in DOMAIN tracks : ~InClaimedRange(tracks[k], c, T)) =>
                   (ret = <<>> /\ raised = "")

\* A half-time candidate (64 for 128) is returned next to a direct one.
C2_Witness ==
    /\ Returned
    /\ args.current_track.bpm = Some(128)
    /\ \E i \in DOMAIN ret : ret[i].track.bpm = Some(64)
    /\ \E i \in DOMAIN ret : ret[i].track.bpm = Some(128)
    /\ \E k \in DOMAIN tracks : tracks[k].bpm = Some(200)

\* C3: no returned recommendation is the current track or a track whose id
\* is in exclude_track_ids.
C3_NoCurrentNoExcluded ==
    Returned =>
        \A i \in DOMAIN ret :
            /\ ret[i].track.id # args.current_track.id
            /\ ret[i].track.id \notin args.exclude_track_ids

\* The table holds the current track and an excluded track of the same BPM,
\* and a third track is returned.
C3_Witness ==
    /\ Returned
    /\ ret # <<>>
    /\ \E k \in DOMAIN tracks : tracks[k] = args.current_track
    /\ \E k \in DOMAIN tracks :
          /\ tracks[k].id \in args.exclude_track_ids
          /\ tracks[k].bpm = args.current_track.bpm
          /\ ~IsNone(tracks[k].bpm)

Rows == { tracks[k] : k \in DOMAIN tracks }

\* The call of the recommendation scenario: the default engine, the table
\* holding A, B and C (and possibly the current track), direction
\* "maintain", nothing excluded, a limit that does not cut the result.
ScenarioCall ==
    /\ pc = "get_recommendations"
    /\ self = DefaultEngine
    /\ {TrackA, TrackB, TrackC} \subseteq Rows
    /\ Rows \subseteq {TrackCur, TrackA, TrackB, TrackC}
    /\ args.current_track = TrackCur
    /\ args.energy_direction = "maintain"
    /\ args.exclude_track_ids = {}
    /\ args.limit >= 2

\* C9: in the scenario the result holds A and B, A ranked above B, B's key
\* score is 0.2, and C is not in the result.
C9_ScenarioRanking ==
    ScenarioCall =>
        /\ raised = ""
        /\ \E i, j \in DOMAIN ret :
              /\ i < j
              /\ ret[i].track = TrackA
              /\ ret[j].track = TrackB
              /\ ret[j].key_score = Tenths(2)
        /\ \A i \in DOMAIN ret : ret[i].track # TrackC

\* The scenario call has returned A and B with B stored before A.
C9_Witness ==
    /\ ScenarioCall
    /\ Len(ret) = 2
    /\ \E i, j \in DOMAIN tracks :
          i < j /\ tracks[i] = TrackB /\ tracks[j] = TrackA

(***************************************************************************)
(* Properties of _score_key (SpecKey)                                      *)
(***************************************************************************)

\* The decimal spelling of the numbers of the Camelot wheel.
NumChars ==
    << <<"1">>, <<"2">>, <<"3">>, <<"4">>, <<"5">>, <<"6">>, <<"7">>, <<"8">>,
       <<"9">>, <<"1", "0">>, <<"1", "1">>, <<"1", "2">> >>

WheelKey(n, letter) == NumChars[n] \o <<letter>>

WheelKeys == { WheelKey(n, letter) : n \in 1..12, letter \in {"A", "B"} }

Clockwise(n) == IF n = 12 THEN 1 ELSE n + 1

CounterClockwise(n) == IF n = 1 THEN 12 ELSE n - 1

Opposite(letter) == IF letter = "A" THEN "B" ELSE "A"

\* The single-hop neighbours of a key: same letter with the number +1 or -1
\* around the wheel, or same number with the opposite letter.  A string that
\* is not a key of the wheel has none.
Neighbours(key) ==
    UNION { IF key = WheelKey(n, letter)
            THEN { WheelKey(Clockwise(n), letter),
                   WheelKey(CounterClockwise(n), letter),
                   WheelKey(n, Opposite(letter)) }
            ELSE {} : n \in 1..12, letter \in {"A", "B"} }

\* The rules of the key score in their precedence, on upper-cased keys.
KeyScoreByRules(a, b) ==
    IF a = b THEN Tenths(10)
    ELSE IF b \in Neighbours(a) THEN Tenths(9)
    ELSE IF DropLast(a) = DropLast(b) /\ a[Len(a)] # b[Len(b)] THEN Tenths(7)
    ELSE IF \E m \in Neighbours(a) : b \in Neighbours(m) THEN Tenths(5)
    ELSE Tenths(2)

\* C4: on two non-empty keys, compared without regard to case, _score_key is
\* 1.0 for equal keys, else 0.9 for a single-hop neighbour, else 0.7 for the
\* same number with another letter, else 0.5 for a neighbour of a neighbour,
\* else 0.2; so on two keys of 1A..12B the same number with the opposite
\* letter scores 0.9 and 0.7 is never returned.
C4_KeyPrecedence ==
    (pc = "_score_key" /\ ~NoKey(args.current_key) /\ ~NoKey(args.candidate_key)) =>
        LET a == upper(Str(Val(args.current_key)))
            b == upper(Str(Val(args.candidate_key)))
        IN  /\ ret = KeyScoreByRules(a, b)
            /\ (a \in WheelKeys /\ b \in WheelKeys) =>
                   /\ ret # Tenths(7)
                   /\ (DropLast(a) = DropLast(b) /\ a # b) => ret = Tenths(9)

\* A lower-case key against its relative major/minor in upper case.
C4_Witness ==
    /\ pc = "_score_key"
    /\ args.current_key = Some("8b")
    /\ args.candidate_key = Some("8A")
    /\ ret = Tenths(9)

(***************************************************************************)
(* Properties of _score_bpm (SpecBpm)                                      *)
(***************************************************************************)

\* C5: for known non-zero BPMs c and d, _score_bpm is 1 - |c-d|/T when
\* |c-d| <= T, else 0.8 * (1 - |c/2-d|/T) when |c/2-d| <= T, else
\* 0.8 * (1 - |2c-d|/T) when |2c-d| <= T, else 0; it is 1 at zero
\* difference, 0 at the boundary, and always in [0,1].  (The equations are
\* multiplied out: |c/2-d| is |c-2d|/2.)
C5_BpmScore ==
    (pc = "_score_bpm" /\ ~NoBpm(args.current_bpm) /\ ~NoBpm(args.candidate_bpm)) =>
        LET c == Val(args.current_bpm)
            d == Val(args.candidate_bpm)
            T == self.bpm_tolerance
        IN  /\ Abs(c - d) <= T => ret * T = One * (T - Abs(c - d))
            /\ (Abs(c - d) > T /\ Abs(c - 2 * d) <= 2 * T) =>
                   10 * ret * 2 * T = 8 * One * (2 * T - Abs(c - 2 * d))
            /\ (Abs(c - d) > T /\ Abs(c - 2 * d) > 2 * T /\ Abs(2 * c - d) <= T) =>
                   10 * ret * T = 8 * One * (T - Abs(2 * c - d))
            /\ (Abs(c - d) > T /\ Abs(c - 2 * d) > 2 * T /\ Abs(2 * c - d) > T) =>
                   ret = 0
            /\ c = d => ret = One
            /\ Abs(c - d) = T => ret = 0
            /\ 0 <= ret /\ ret <= One

\* A half-time match inside its range: 62 against 128 scores 0.8 * (1 - 2/T).
C5_Witness ==
    /\ pc = "_score_bpm"
    /\ args.current_bpm = Some(128)
    /\ args.candidate_bpm = Some(62)
    /\ ret > 0
    /\ ret < Tenths(8)

(***************************************************************************)
(* Properties of _score_energy (SpecEnergy)                                *)
(***************************************************************************)

\* C6: with both energies known and d = candidate - current, "maintain"
\* scores 1.0 if |d| <= 0.1, 0.7 if |d| <= 0.2, 0.4 if |d| <= 0.3, else 0.2;
\* "build" scores 1.0 if 0 <= d <= 0.2, 0.7 if 0.2 < d <= 0.4, 0.5 if
\* -0.1 <= d < 0, else 0.2.
C6_EnergyBands ==
    (pc = "_score_energy" /\ ~IsNone(args.current_energy)
                          /\ ~IsNone(args.candidate_energy)) =>
        LET d == FloatSub(Val(args.candidate_energy), Val(args.current_energy))
        IN  /\ args.direction = "maintain" =>
                   /\ Abs(d) <= Lit(10) => ret = Tenths(10)
                   /\ (Lit(10) < Abs(d) /\ Abs(d) <= Lit(20)) => ret = Tenths(7)
                   /\ (Lit(20) < Abs(d) /\ Abs(d) <= Lit(30)) => ret = Tenths(4)
                   /\ Lit(30) < Abs(d) => ret = Tenths(2)
            /\ args.direction = "build" =>
                   /\ (0 <= d /\ d <= Lit(20)) => ret = Tenths(10)
                   /\ (Lit(20) < d /\ d <= Lit(40)) => ret = Tenths(7)
                   /\ (Lit(-10) <= d /\ d < 0) => ret = Tenths(5)
                   /\ (d > Lit(40) \/ d < Lit(-10)) => ret = Tenths(2)

\* "maintain" on the boundary of its first band: 0.1 - 0.0 is exactly 0.1.
C6_Witness ==
    /\ pc = "_score_energy"
    /\ args.direction = "maintain"
    /\ args.current_energy = Some(0)
    /\ args.candidate_energy = Some(10)
    /\ ret = Tenths(10)

\* C7: "drop" mirrors "build": for known energies a and b,
\* _score_energy(a, b, "drop") is _score_energy(b, a, "build"), also where
\* b - a is a band boundary.
C7_DropMirrorsBuild ==
    (pc = "_score_energy" /\ args.direction = "drop"
                          /\ ~IsNone(args.current_energy)
                          /\ ~IsNone(args.candidate_energy)) =>
        ret = _score_energy(args.candidate_energy, args.current_energy, "build")

\* "drop" on the boundary of its second band: 0.1 - 0.5 is exactly -0.4.
C7_Witness ==
    /\ pc = "_score_energy"
    /\ args.direction = "drop"
    /\ args.current_energy = Some(50)
    /\ args.candidate_energy = Some(10)
    /\ ret = Tenths(7)

(***************************************************************************)
(* Properties of _calculate_scores (SpecScores)                            *)
(***************************************************************************)

\* C8: _calculate_scores raises only when both embeddings are there and have
\* different lengths, never for a missing field; a factor whose input is
\* missing on either track scores exactly 0.5, every factor is the score of
\* its own inputs whatever else is missing, and total is the weighted sum.
C8_IndependentFallbacks ==
    pc = "_calculate_scores" =>
        LET cur  == args.current
            cand == args.candidate
        IN  /\ raised # "" =>
                   /\ ~IsNone(cur.embedding) /\ ~IsNone(cand.embedding)
                   /\ Len(Val(cur.embedding)) # Len(Val(cand.embedding))
            /\ raised = "" =>
                   /\ (IsNone(cur.bpm) \/ IsNone(cand.bpm)) => ret.bpm = Tenths(5)
                   /\ (IsNone(cur.key) \/ IsNone(cand.key)) => ret.key = Tenths(5)
                   /\ (IsNone(cur.energy) \/ IsNone(cand.energy)) =>
                          ret.energy = Tenths(5)
                   /\ (IsNone(cur.embedding) \/ IsNone(cand.embedding)) =>
                          ret.embedding = Tenths(5)
                   /\ ret.bpm = _score_bpm(self.bpm_tolerance, cur.bpm, cand.bpm)
                   /\ ret.key = _score_key(cur.key, cand.key)
                   /\ ret.energy = _score_energy(cur.energy, cand.energy,
                                                 args.energy_direction)
                   /\ ret.embedding = _score_embedding(cur.embedding, cand.embedding)
                   /\ ret.total = ret.bpm * self.bpm_weight
                                  + ret.key * self.key_weight
                                  + ret.energy * self.energy_weight
                                  + ret.embedding * self.embedding_weight

\* The candidate has no key and no embedding; BPM and energy are still
\* scored from their data.
C8_Witness ==
    /\ pc = "_calculate_scores"
    /\ raised = ""
    /\ IsNone(args.candidate.key)
    /\ IsNone(args.candidate.embedding)
    /\ ~IsNone(args.current.embedding)
    /\ args.current.bpm = Some(128) /\ args.candidate.bpm = Some(131)
    /\ args.current.energy = Some(60) /\ args.candidate.energy = Some(90)
    /\ ret.key = Tenths(5)
    /\ ret.embedding = Tenths(5)
    /\ ret.bpm # Tenths(5)
    /\ ret.energy # Tenths(5)

\* The scoring of candidate A of the recommendation scenario: no embedding
\* on either track, the default engine, direction "maintain".
ScenarioScoring ==
    /\ pc = "_calculate_scores"
    /\ self = DefaultEngine
    /\ args.current = Track("cur", Some(128), Some("8B"), Some(60), None)
    /\ args.candidate = Track("cand", Some(128), Some("8B"), Some(62), None)
    /\ args.energy_direction = "maintain"

\* C10 as stated: A gets BPM, key and energy scores 1.0 and a total of at
\* least 0.95.
C10_TotalAtLeast095 ==
    ScenarioScoring =>
        /\ raised = ""
        /\ ret.bpm = One
        /\ ret.key = One
        /\ ret.energy = One
        /\ ret.total >= 95 * One

\* C10 as amended: A gets BPM, key and energy scores 1.0, the neutral
\* embedding score 0.5, and a total of exactly 0.875.
C10_TotalIs0875 ==
    ScenarioScoring =>
        /\ raised = ""
        /\ ret.bpm = One
        /\ ret.key = One
        /\ ret.energy = One
        /\ ret.embedding = Tenths(5)
        /\ 1000 * ret.total = 875 * (100 * One)

\* The scenario's scoring of A has returned.
C10_Witness ==
    /\ ScenarioScoring
    /\ raised = ""
    /\ ret.total < 95 * One

(***************************************************************************)
(* AudioAnalyzer (backend/analysis/audio_analyzer.py) and the storage      *)
(* lookup its download goes through (backend/storage/cloud.py, local.py).  *)
(*                                                                         *)
(* A path or URI is named by its string; Text gives its characters, and    *)
(* every test the code makes on a string is made on the characters.        *)
(* An analysis call is a coroutine: each action below is the code that     *)
(* runs between two suspension points, and frame holds the call's locals   *)
(* (it keeps their last values after the call has ended).                  *)
(***************************************************************************)

Text ==
       ("/m/a.mp3" :> <<"/", "m", "/", "a", ".", "m", "p", "3">>)
    @@ ("/m/A.MP3" :> <<"/", "m", "/", "A", ".", "M", "P", "3">>)
    @@ ("/m/gone.mp3" :> <<"/", "m", "/", "g", "o", "n", "e", ".", "m", "p", "3">>)
    @@ ("/m/b.opus" :> <<"/", "m", "/", "b", ".", "o", "p", "u", "s">>)
    @@ ("/m/c.txt" :> <<"/", "m", "/", "c", ".", "t", "x", "t">>)
    @@ ("/m/bad.wav" :> <<"/", "m", "/", "b", "a", "d", ".", "w", "a", "v">>)
    @@ ("/m/noext" :> <<"/", "m", "/", "n", "o", "e", "x", "t">>)
    @@ ("gs://b/a.mp3" :> <<"g", "s", ":", "/", "/", "b", "/", "a", ".", "m", "p", "3">>)
    @@ ("s3://b/a.mp3" :> <<"s", "3", ":", "/", "/", "b", "/", "a", ".", "m", "p", "3">>)
    @@ ("b2://b/a.mp3" :> <<"b", "2", ":", "/", "/", "b", "/", "a", ".", "m", "p", "3">>)
    @@ ("gdrive://f1" :> <<"g", "d", "r", "i", "v", "e", ":", "/", "/", "f", "1">>)
    @@ ("https://drive.google.com/f1" :> <<"h", "t", "t", "p", "s", ":", "/", "/", "d", "r", "i", "v", "e", ".", "g", "o", "o", "g", "l", "e", ".", "c", "o", "m", "/", "f", "1">>)
    @@ ("https://storage.googleapis.com/b/a.mp3" :> <<"h", "t", "t", "p", "s", ":", "/", "/", "s", "t", "o", "r", "a", "g", "e", ".", "g", "o", "o", "g", "l", "e", "a", "p", "i", "s", ".", "c", "o", "m", "/", "b", "/", "a", ".", "m", "p", "3">>)
    @@ ("GS://b/a.mp3" :> <<"G", "S", ":", "/", "/", "b", "/", "a", ".", "m", "p", "3">>)
    @@ ("https://example.com/a.mp3" :> <<"h", "t", "t", "p", "s", ":", "/", "/", "e", "x", "a", "m", "p", "l", "e", ".", "c", "o", "m", "/", "a", ".", "m", "p", "3">>)
    @@ ("gs://" :> <<"g", "s", ":", "/", "/">>)
    @@ ("s3://" :> <<"s", "3", ":", "/", "/">>)
    @@ ("b2://" :> <<"b", "2", ":", "/", "/">>)
    @@ ("gdrive://" :> <<"g", "d", "r", "i", "v", "e", ":", "/", "/">>)
    @@ ("https://drive.google.com/" :> <<"h", "t", "t", "p", "s", ":", "/", "/", "d", "r", "i", "v", "e", ".", "g", "o", "o", "g", "l", "e", ".", "c", "o", "m", "/">>)
    @@ ("https://storage.googleapis.com/" :> <<"h", "t", "t", "p", "s", ":", "/", "/", "s", "t", "o", "r", "a", "g", "e", ".", "g", "o", "o", "g", "l", "e", "a", "p", "i", "s", ".", "c", "o", "m", "/">>)
    @@ ("://" :> <<":", "/", "/">>)
    @@ ("file" :> <<"f", "i", "l", "e">>)
    @@ (".mp3" :> <<".", "m", "p", "3">>)
    @@ (".flac" :> <<".", "f", "l", "a", "c">>)
    @@ (".wav" :> <<".", "w", "a", "v">>)
    @@ (".aiff" :> <<".", "a", "i", "f", "f">>)
    @@ (".aac" :> <<".", "a", "a", "c">>)
    @@ (".ogg" :> <<".", "o", "g", "g">>)
    @@ (".m4a" :> <<".", "m", "4", "a">>)
    @@ ("/tmp/tmp1.mp3" :> <<"/", "t", "m", "p", "/", "t", "m", "p", "1", ".", "m", "p", "3">>)
    @@ ("/" :> <<"/">>)
    @@ ("." :> <<".">>)

\* str.startswith
startswith(s, prefix) ==
    Len(prefix) <= Len(s) /\ SubSeq(s, 1, Len(prefix)) = prefix

\* The positions at which sub occurs in s.
Occurrences(s, sub) ==
    { i \in 1..(Len(s) - Len(sub) + 1) : SubSeq(s, i, i + Len(sub) - 1) = sub }

SetMin(S) == CHOOSE x \in S : \A y \in S : x <= y

SetMax(S) == CHOOSE x \in S : \A y \in S : x >= y

Uppercase ==
    << "A", "B", "C", "D", "E", "F", "G", "H", "I", "J", "K", "L", "M",
       "N", "O", "P", "Q", "R", "S", "T", "U", "V", "W", "X", "Y", "Z" >>

Lowercase ==
    << "a", "b", "c", "d", "e", "f", "g", "h", "i", "j", "k", "l", "m",
       "n", "o", "p", "q", "r", "s", "t", "u", "v", "w", "x", "y", "z" >>

LowerChar(c) ==
    IF \E i \in DOMAIN Uppercase : Uppercase[i] = c
    THEN Lowercase[CHOOSE i \in DOMAIN Uppercase : Uppercase[i] = c]
    ELSE c

\* str.lower()
lower(s) == [i \in DOMAIN s |-> LowerChar(s[i])]

\* PurePath.suffix: the last dot of the final component and what follows it,
\* unless that dot opens or closes the component.
suffix(path) ==
    LET slashes == Occurrences(path, Text["/"])
        start   == IF slashes = {} THEN 0 ELSE SetMax(slashes)
        name    == SubSeq(path, start + 1, Len(path))
        dots    == Occurrences(name, Text["."])
        i       == IF dots = {} THEN 0 ELSE SetMax(dots)
    IN  IF 1 < i /\ i < Len(name) THEN SubSeq(name, i, Len(name)) ELSE <<>>

\* AudioAnalyzer.SUPPORTED_FORMATS
SUPPORTED_FORMATS ==
    { Text[".mp3"], Text[".flac"], Text[".wav"], Text[".aiff"], Text[".aac"],
      Text[".ogg"], Text[".m4a"] }

\* cloud_prefixes of _is_cloud_uri
cloud_prefixes ==
    << "gs://", "s3://", "b2://", "gdrive://", "https://drive.google.com/",
       "https://storage.googleapis.com/" >>

_is_cloud_uri(uri) ==
    \E i \in DOMAIN cloud_prefixes : startswith(uri, Text[cloud_prefixes[i]])

\* CloudStorage(): the registry of a new instance holds no provider.
CloudStorage == [ _providers |-> [scheme \in {} |-> "LocalStorage"] ]

\* CloudStorage._get_provider: the provider and the file id of a URI, or
\* the exception it raises.
_get_provider(storage, uri) ==
    LET at == Occurrences(uri, Text["://"])
    IN  IF at # {}
        THEN LET scheme == lower(SubSeq(uri, 1, SetMin(at) - 1))
                 rest   == SubSeq(uri, SetMin(at) + 3, Len(uri))
             IN  IF scheme \in DOMAIN storage._providers
                 THEN [ raised |-> "", provider |-> storage._providers[scheme],
                        file_id |-> rest ]
                 ELSE IF scheme = Text["file"]
                 THEN [ raised |-> "", provider |-> "LocalStorage",
                        file_id |-> rest ]
                 ELSE [ raised |-> ValueError, provider |-> "", file_id |-> <<>> ]
        ELSE [ raised |-> "", provider |-> "LocalStorage", file_id |-> uri ]

\* os.path.exists of a string given by its characters.
exists(fs, path) == \E p \in fs : Text[p] = path

\* The name tempfile.mkstemp makes up.
TempPath == "/tmp/tmp1.mp3"

\* LocalStorage.download_temp: copies the source to a new temporary file.
LocalStorage_download_temp(fs, file_id) ==
    IF ~exists(fs, file_id)
    THEN [ raised |-> "FileNotFoundError", path |-> "", files |-> fs ]
    ELSE [ raised |-> "", path |-> TempPath, files |-> fs \cup {TempPath} ]

\* CloudStorage.download_temp
download_temp(storage, fs, uri) ==
    LET found == _get_provider(storage, uri)
    IN  IF found.raised # ""
        THEN [ raised |-> found.raised, path |-> "", files |-> fs ]
        ELSE LocalStorage_download_temp(fs, found.file_id)

\* AudioAnalyzer._download_from_cloud: asks a new CloudStorage for the file.
_download_from_cloud(fs, uri) == download_temp(CloudStorage, fs, uri)

\* The tasks _analyze_audio hands to asyncio.gather, in its order.
TaskList(compute_embedding, compute_waveform) ==
    << "bpm_task", "key_task", "energy_task", "beat_task" >>
        \o (IF compute_embedding THEN << "embedding_task" >> ELSE << >>)
        \o (IF compute_waveform THEN << "waveform_task" >> ELSE << >>)

\* What a task returned: the value is known by the task that made it, and a
\* component of a returned tuple by its position (0 is the whole value).
Output(task) == [ of |-> task, part |-> 0 ]

Part(result, k) == [ of |-> result.of, part |-> k ]

\* asyncio.gather returns the results in the order of the tasks.
GatherResults(tasks) == [i \in DOMAIN tasks |-> Output(tasks[i])]

\* The most beats beat_task finds.
MaxBeats == 1

\* The dict of _analyze_audio without `idx += 1` after the embedding.
AnalyzeAudioIndexNotAdvanced(results, beats, compute_embedding, compute_waveform) ==
    LET analysis ==
               ("bpm" :> Part(results[1], 1))
            @@ ("bpm_confidence" :> Part(results[1], 2))
            @@ ("key" :> Part(results[2], 3))
            @@ ("key_root" :> Part(results[2], 1))
            @@ ("key_mode" :> Part(results[2], 2))
            @@ ("key_confidence" :> Part(results[2], 4))
            @@ ("energy" :> results[3])
            @@ ("duration_ms" :> Output("librosa.load"))
        withBeats ==
            IF beats > 0
            THEN analysis @@ ("first_beat_ms" :> Part(results[4], 1))
                          @@ ("beat_count" :> Part(results[4], 2))
            ELSE analysis
        idx == 5
        withEmbedding ==
            IF compute_embedding
            THEN withBeats @@ ("embedding" :> results[idx])
            ELSE withBeats
    IN  IF compute_waveform
        THEN withEmbedding @@ ("waveform" :> results[idx])
        ELSE withEmbedding

\* The dict _analyze_audio builds from the gathered results (the code counts
\* positions from 0, a sequence from 1).  beats is len(beat_times).
_analyze_audio(results, beats, compute_embedding, compute_waveform) ==
    LET analysis ==
               ("bpm" :> Part(results[1], 1))
            @@ ("bpm_confidence" :> Part(results[1], 2))
            @@ ("key" :> Part(results[2], 3))
            @@ ("key_root" :> Part(results[2], 1))
            @@ ("key_mode" :> Part(results[2], 2))
            @@ ("key_confidence" :> Part(results[2], 4))
            @@ ("energy" :> results[3])
            @@ ("duration_ms" :> Output("librosa.load"))
        withBeats ==
            IF beats > 0
            THEN analysis @@ ("first_beat_ms" :> Part(results[4], 1))
                          @@ ("beat_count" :> Part(results[4], 2))
            ELSE analysis
        idx == 5
        withEmbedding ==
            IF compute_embedding
            THEN withBeats @@ ("embedding" :> results[idx])
            ELSE withBeats
        idx2 == IF compute_embedding THEN idx + 1 ELSE idx
    IN  IF compute_waveform
        THEN withEmbedding @@ ("waveform" :> results[idx2])
        ELSE withEmbedding

\* The finally block of analyze_track: the files left on the disk.
finally(fs, locals) ==
    IF locals.is_temp_file /\ locals.local_path # "" /\ locals.local_path \in fs
    THEN fs \ {locals.local_path}
    ELSE fs

(***************************************************************************)
(* SpecAnalyze: calls of analyze_track and analyze_local_file              *)
(***************************************************************************)

\* AudioAnalyzer(): the defaults of __init__.
DefaultAnalyzer == [ sr |-> 22050, hop_length |-> 512, temp_dir |-> None ]

\* Local paths of each kind, one URI for each cloud prefix, and two URIs
\* that are not cloud URIs.
LocalSources ==
    { "/m/a.mp3", "/m/A.MP3", "/m/gone.mp3", "/m/b.opus", "/m/c.txt",
      "/m/bad.wav", "/m/noext" }

CloudSources ==
    { "gs://b/a.mp3", "s3://b/a.mp3", "b2://b/a.mp3", "gdrive://f1",
      "https://drive.google.com/f1", "https://storage.googleapis.com/b/a.mp3" }

Sources == LocalSources \cup CloudSources \cup { "GS://b/a.mp3", "https://example.com/a.mp3" }

\* The files on the disk when a call starts (gone.mp3 is not there).
Disk == LocalSources \ { "/m/gone.mp3" }

\* The remote objects that exist.
RemoteObjects == CloudSources

\* The sources whose content librosa.load can decode, whatever their name.
Decodable == { "/m/a.mp3", "/m/A.MP3", "/m/b.opus" } \cup RemoteObjects

\* The locals of a call that has not started a task.
Locals(local_path, is_temp_file) ==
    [ local_path |-> local_path, is_temp_file |-> is_temp_file,
      loading |-> FALSE, tasks |-> << >>, status |-> << >>, beats |-> 0 ]

InitAnalyze ==
    /\ self = DefaultAnalyzer
    /\ tracks = <<>>
    /\ pc = "call"
    /\ args = None
    /\ ret = None
    /\ raised = ""
    /\ files = Disk
    /\ frame = None
    /\ analysis_jobs = NoJobs

\* analyze_track up to its first suspension: the download of a cloud source,
\* then the start of librosa.load in a thread.  A failed download leaves
\* through the finally block.
AnalyzeTrack ==
    /\ pc = "call"
    /\ \E audio_source \in Sources, compute_embedding \in BOOLEAN,
          compute_waveform \in BOOLEAN :
          /\ args' = [ method            |-> "analyze_track",
                       audio_source      |-> audio_source,
                       compute_embedding |-> compute_embedding,
                       compute_waveform  |-> compute_waveform ]
          /\ IF _is_cloud_uri(Text[audio_source])
             THEN LET got == _download_from_cloud(files, Text[audio_source])
                  IN  IF got.raised # ""
                      THEN /\ frame' = Locals(audio_source, FALSE)
                           /\ files' = finally(got.files, frame')
                           /\ raised' = got.raised
                           /\ pc' = "analyze_track"
                      ELSE /\ frame' = [ Locals(got.path, TRUE)
                                           EXCEPT !.loading = TRUE ]
                           /\ files' = got.files
                           /\ raised' = ""
                           /\ pc' = "librosa.load"
             ELSE /\ frame' = [ Locals(audio_source, FALSE)
                                  EXCEPT !.loading = TRUE ]
                  /\ files' = files
                  /\ raised' = ""
                  /\ pc' = "librosa.load"
    /\ UNCHANGED <<self, tracks, ret, analysis_jobs>>

\* analyze_local_file up to its first suspension: the two checks, then the
\* start of librosa.load in a thread.
AnalyzeLocalFile ==
    /\ pc = "call"
    /\ \E file_path \in Sources, compute_embedding \in BOOLEAN,
          compute_waveform \in BOOLEAN :
          /\ args' = [ method            |-> "analyze_local_file",
                       audio_source      |-> file_path,
                       compute_embedding |-> compute_embedding,
                       compute_waveform  |-> compute_waveform ]
          /\ IF ~exists(files, Text[file_path])
             THEN /\ frame' = Locals(file_path, FALSE)
                  /\ raised' = "FileNotFoundError"
                  /\ pc' = "analyze_local_file"
             ELSE IF lower(suffix(Text[file_path])) \notin SUPPORTED_FORMATS
             THEN /\ frame' = Locals(file_path, FALSE)
                  /\ raised' = ValueError
                  /\ pc' = "analyze_local_file"
             ELSE /\ frame' = [ Locals(file_path, FALSE)
                                  EXCEPT !.loading = TRUE ]
                  /\ raised' = ""
                  /\ pc' = "librosa.load"
    /\ UNCHANGED <<self, tracks, ret, files, analysis_jobs>>

\* What the call leaves on the disk when it ends: analyze_track ends through
\* its finally block, analyze_local_file has none.
FilesAtEnd ==
    IF args.method = "analyze_track" THEN finally(files, frame) ELSE files

\* Whose content the file at local_path has.
ContentOf(locals) ==
    IF locals.is_temp_file THEN args.audio_source ELSE locals.local_path

\* The thread of librosa.load finishes.  It raises for a file that is not
\* there or cannot be decoded; otherwise _analyze_audio starts its tasks and
\* the call is suspended in asyncio.gather.
LibrosaLoad ==
    /\ pc = "librosa.load"
    /\ IF frame.local_path \notin files
       THEN /\ raised' = "FileNotFoundError"
            /\ files' = FilesAtEnd
            /\ pc' = args.method
            /\ frame' = frame
       ELSE IF ContentOf(frame) \notin Decodable
       THEN /\ raised' = "NoBackendError"
            /\ files' = FilesAtEnd
            /\ pc' = args.method
            /\ frame' = frame
       ELSE LET tasks == TaskList(args.compute_embedding, args.compute_waveform)
            IN  /\ frame' = [ frame EXCEPT !.tasks = tasks,
                                !.status = [i \in DOMAIN tasks |-> "running"] ]
                /\ pc' = "gather"
                /\ UNCHANGED <<raised, files, analysis_jobs>>
    /\ UNCHANGED <<self, tracks, args, ret, analysis_jobs>>

\* The thread of one task finishes: it returns or raises.
TaskCompletes ==
    /\ pc = "gather"
    /\ \E i \in DOMAIN frame.tasks, outcome \in {"done", "failed"},
          beats \in 0..MaxBeats :
          /\ frame.status[i] = "running"
          /\ IF frame.tasks[i] = "beat_task" /\ outcome = "done"
             THEN frame' = [ frame EXCEPT !.status[i] = outcome,
                                          !.beats = beats ]
             ELSE /\ beats = 0
                  /\ frame' = [ frame EXCEPT !.status[i] = outcome ]
    /\ UNCHANGED <<self, tracks, pc, args, ret, raised, files, analysis_jobs>>

\* asyncio.gather resumes the call: with the exception of a failed task, or
\* with all the results, from which _analyze_audio builds the dict that the
\* call returns.
Gather ==
    /\ pc = "gather"
    /\ IF \E i \in DOMAIN frame.status : frame.status[i] = "failed"
       THEN raised' = "Exception" /\ ret' = None
       ELSE /\ \A i \in DOMAIN frame.status : frame.status[i] = "done"
            /\ ret' = Some(_analyze_audio(GatherResults(frame.tasks), frame.beats,
                                          args.compute_embedding,
                                          args.compute_waveform))
            /\ raised' = ""
    /\ files' = FilesAtEnd
    /\ pc' = args.method
    /\ UNCHANGED <<self, tracks, args, frame, analysis_jobs>>

\* The call is cancelled while it is suspended: CancelledError is raised
\* at the await.
Cancel ==
    /\ pc \in {"librosa.load", "gather"}
    /\ raised' = "CancelledError"
    /\ files' = FilesAtEnd
    /\ pc' = args.method
    /\ UNCHANGED <<self, tracks, args, ret, frame, analysis_jobs>>

NextAnalyze ==
    \/ AnalyzeTrack
    \/ AnalyzeLocalFile
    \/ LibrosaLoad
    \/ TaskCompletes
    \/ Gather
    \/ Cancel

SpecAnalyze == InitAnalyze /\ [][NextAnalyze]_vars

(***************************************************************************)
(* Properties of the analysis calls (SpecAnalyze)                          *)
(***************************************************************************)

\* The call has ended, by returning or by raising.
Ended == pc \in {"analyze_track", "analyze_local_file"}

\* The keys every analysis dict has.
RequiredKeys ==
    { "bpm", "bpm_confidence", "key", "key_root", "key_mode", "key_confidence",
      "energy", "duration_ms" }

\* A step of the call failed: the download (librosa.load was never started),
\* the decode (no task was started), or one of the tasks.
SomeStepFailed ==
    \/ ~frame.loading
    \/ frame.tasks = << >>
    \/ \E i \in DOMAIN frame.status : frame.status[i] = "failed"

\* C12: analysis is all-or-nothing.  No dict exists before the call has
\* ended; a call in which the download, the decode or a task failed ends by
\* raising, without a dict; a returned dict has the eight required keys, has
\* 'embedding' exactly when compute_embedding is set and 'waveform' exactly
\* when compute_waveform is set, and each of the two holds the output of its
\* own task.
C12_AllOrNothing ==
    /\ ~Ended => IsNone(ret)
    /\ Ended =>
        /\ raised # "" <=> IsNone(ret)
        /\ SomeStepFailed => raised # "" /\ IsNone(ret)
        /\ ~IsNone(ret) =>
            LET analysis == Val(ret)
            IN  /\ RequiredKeys \subseteq DOMAIN analysis
                /\ "embedding" \in DOMAIN analysis <=> args.compute_embedding
                /\ "waveform" \in DOMAIN analysis <=> args.compute_waveform
                /\ args.compute_embedding =>
                       analysis["embedding"] = Output("embedding_task")
                /\ args.compute_waveform =>
                       analysis["waveform"] = Output("waveform_task")

\* A call returned a dict with both the embedding and the waveform asked for.
C12_Witness ==
    /\ Ended
    /\ ~IsNone(ret)
    /\ args.compute_embedding
    /\ args.compute_waveform
    /\ frame.beats > 0

\* The source of the call is a local path that is not on the disk or whose
\* extension is not a supported one.
BadLocalSource ==
    /\ ~_is_cloud_uri(Text[args.audio_source])
    /\ \/ ~exists(files, Text[args.audio_source])
       \/ lower(suffix(Text[args.audio_source])) \notin SUPPORTED_FORMATS

\* C13: a local source that is missing or has an unsupported extension is
\* rejected with an error before the audio is decoded and before any task is
\* started, through analyze_local_file and through analyze_track alike.
C13_RejectedBeforeDecode ==
    (pc # "call" /\ BadLocalSource) =>
        /\ Ended
        /\ raised # ""
        /\ ~frame.loading
        /\ frame.tasks = << >>

\* C14: for a source with a recognised cloud prefix whose remote object
\* exists, the download step of analyze_track resolves a provider and gets a
\* temporary file, which is then handed to librosa.load.
C14_CloudSourceDownloaded ==
    ( /\ pc # "call"
      /\ args.method = "analyze_track"
      /\ _is_cloud_uri(Text[args.audio_source])
      /\ args.audio_source \in RemoteObjects ) =>
        /\ frame.is_temp_file
        /\ frame.loading

(***************************************************************************)
(* KeyDetector (backend/analysis/key_detector.py)                          *)
(*                                                                         *)
(* A chroma vector is a tuple of 12 whole numbers and a key profile the    *)
(* tuple of its values in hundredths.  The Pearson correlation of x and y  *)
(* is num / sqrt(den2) with                                                *)
(*     num  = 12 * sum(x * y) - sum(x) * sum(y)                            *)
(*     den2 = (12 * sum(x * x) - sum(x)^2) * (12 * sum(y * y) - sum(y)^2)  *)
(* and is kept as that pair, so that correlations are compared exactly;    *)
(* it is NaN when den2 is 0.  Scaling a vector by a positive factor, which *)
(* is all the normalisations of detect do, leaves the pair's value         *)
(* unchanged.  A confidence is a whole number of thousandths.              *)
(***************************************************************************)

MAJOR_PROFILE == << 635, 223, 348, 233, 438, 409, 252, 519, 239, 366, 229, 288 >>

MINOR_PROFILE == << 633, 268, 352, 538, 260, 353, 254, 475, 398, 269, 334, 317 >>

PITCH_CLASSES == << "C", "C#", "D", "D#", "E", "F", "F#", "G", "G#", "A", "A#", "B" >>

\* CAMELOT_MAP with A minor on the code of C major.
CamelotMapWithClash ==
       (<<"C", "major">> :> "8B") @@ (<<"C", "minor">> :> "5A")
    @@ (<<"C#", "major">> :> "3B") @@ (<<"C#", "minor">> :> "12A")
    @@ (<<"D", "major">> :> "10B") @@ (<<"D", "minor">> :> "7A")
    @@ (<<"D#", "major">> :> "5B") @@ (<<"D#", "minor">> :> "2A")
    @@ (<<"E", "major">> :> "12B") @@ (<<"E", "minor">> :> "9A")
    @@ (<<"F", "major">> :> "7B") @@ (<<"F", "minor">> :> "4A")
    @@ (<<"F#", "major">> :> "2B") @@ (<<"F#", "minor">> :> "11A")
    @@ (<<"G", "major">> :> "9B") @@ (<<"G", "minor">> :> "6A")
    @@ (<<"G#", "major">> :> "4B") @@ (<<"G#", "minor">> :> "1A")
    @@ (<<"A", "major">> :> "11B") @@ (<<"A", "minor">> :> "8B")
    @@ (<<"A#", "major">> :> "6B") @@ (<<"A#", "minor">> :> "3A")
    @@ (<<"B", "major">> :> "1B") @@ (<<"B", "minor">> :> "10A")

CAMELOT_MAP ==
       (<<"C", "major">> :> "8B") @@ (<<"C", "minor">> :> "5A")
    @@ (<<"C#", "major">> :> "3B") @@ (<<"C#", "minor">> :> "12A")
    @@ (<<"D", "major">> :> "10B") @@ (<<"D", "minor">> :> "7A")
    @@ (<<"D#", "major">> :> "5B") @@ (<<"D#", "minor">> :> "2A")
    @@ (<<"E", "major">> :> "12B") @@ (<<"E", "minor">> :> "9A")
    @@ (<<"F", "major">> :> "7B") @@ (<<"F", "minor">> :> "4A")
    @@ (<<"F#", "major">> :> "2B") @@ (<<"F#", "minor">> :> "11A")
    @@ (<<"G", "major">> :> "9B") @@ (<<"G", "minor">> :> "6A")
    @@ (<<"G#", "major">> :> "4B") @@ (<<"G#", "minor">> :> "1A")
    @@ (<<"A", "major">> :> "11B") @@ (<<"A", "minor">> :> "8A")
    @@ (<<"A#", "major">> :> "6B") @@ (<<"A#", "minor">> :> "3A")
    @@ (<<"B", "major">> :> "1B") @@ (<<"B", "minor">> :> "10A")

\* np.roll(profile, shift)
roll(profile, shift) ==
    [i \in 1..12 |-> profile[((i - 1 - shift) % 12) + 1]]

RECURSIVE SumTo(_, _)
\* v[1] + ... + v[n]
SumTo(v, n) == IF n = 0 THEN 0 ELSE SumTo(v, n - 1) + v[n]

Sum(v) == SumTo(v, Len(v))

Times(x, y) == [i \in DOMAIN x |-> x[i] * y[i]]

\* 12 * 12 times the variance of x.
Spread(x) == 12 * Sum(Times(x, x)) - Sum(x) * Sum(x)

NaN == [ nan |-> TRUE, num |-> 0, den2 |-> 1 ]

Number(num, den2) == [ nan |-> FALSE, num |-> num, den2 |-> den2 ]

\* np.corrcoef(x, y)[0, 1]: NaN (0 / 0) when x or y is constant.
corrcoef(x, y) ==
    IF Spread(x) = 0 \/ Spread(y) = 0
    THEN NaN
    ELSE Number(12 * Sum(Times(x, y)) - Sum(x) * Sum(y), Spread(x) * Spread(y))

RECURSIVE LeqFrac(_, _, _, _)
\* a / b <= c / d for a, c >= 0 and b, d > 0, by the continued fractions of
\* the two sides (no product is formed).
LeqFrac(a, b, c, d) ==
    IF a \div b # c \div d THEN a \div b < c \div d
    ELSE IF a % b = 0 THEN TRUE
    ELSE IF c % d = 0 THEN FALSE
    ELSE LeqFrac(d, c % d, b, a % b)

\* r <= s for two correlations that are numbers.
LeqNumber(r, s) ==
    IF r.num >= 0 /\ s.num >= 0
    THEN LeqFrac(r.num * r.num, r.den2, s.num * s.num, s.den2)
    ELSE IF r.num < 0 /\ s.num < 0
    THEN LeqFrac(s.num * s.num, s.den2, r.num * r.num, r.den2)
    ELSE r.num < 0

\* r >= s in place of r > s.
GreaterOrEqual(r, s) == ~r.nan /\ ~s.nan /\ LeqNumber(s, r)

\* r > s as IEEE-754 has it: false when either side is NaN.
Greater(r, s) == ~r.nan /\ ~s.nan /\ ~LeqNumber(r, s)

\* The whole number of thousandths in a correlation r >= 0: floor(1000 r).
FloorThousandths(r) ==
    CHOOSE t \in 0..1000 :
        /\ LeqFrac(t * t, 1000 * 1000, r.num * r.num, r.den2)
        /\ ~LeqFrac((t + 1) * (t + 1), 1000 * 1000, r.num * r.num, r.den2)

\* round((r + 1) / 2, 3) in thousandths, for -1 <= r <= 1.
HalfOfOnePlus(r) ==
    IF r.num >= 0
    THEN (1001 + FloorThousandths(r)) \div 2
    ELSE (1000 - FloorThousandths(Number(-r.num, r.den2))) \div 2

Max(a, b) == IF a >= b THEN a ELSE b

confidence(r) == Max(0, Min(1000, HalfOfOnePlus(r)))

RECURSIVE Correlate(_, _)
\* The loop of detect over the pitch classes 0 .. n - 1: best_key,
\* best_mode and best_correlation after it.
Correlate(chroma_avg, n) ==
    IF n = 0
    THEN [ best_key |-> None, best_mode |-> None,
           best_correlation |-> Number(-1, 1) ]
    ELSE LET before      == Correlate(chroma_avg, n - 1)
             pitch_class == n - 1
             major_corr  == corrcoef(chroma_avg, roll(MAJOR_PROFILE, pitch_class))
             minor_corr  == corrcoef(chroma_avg, roll(MINOR_PROFILE, pitch_class))
             afterMajor  ==
                 IF Greater(major_corr, before.best_correlation)
                 THEN [ best_key |-> Some(pitch_class), best_mode |-> Some("major"),
                        best_correlation |-> major_corr ]
                 ELSE before
         IN  IF Greater(minor_corr, afterMajor.best_correlation)
             THEN [ best_key |-> Some(pitch_class), best_mode |-> Some("minor"),
                    best_correlation |-> minor_corr ]
             ELSE afterMajor

\* KeyDetector.detect raises: PITCH_CLASSES[None] is a TypeError.
detect_raises(chroma_avg) == IsNone(Correlate(chroma_avg, 12).best_key)

\* dict.get(key, '')
CamelotMapGet(key) == IF key \in DOMAIN CAMELOT_MAP THEN CAMELOT_MAP[key] ELSE ""

\* KeyDetector.detect, from the time average of the chromagram on.
detect(chroma_avg) ==
    LET best      == Correlate(chroma_avg, 12)
        root_note == PITCH_CLASSES[Val(best.best_key) + 1]
    IN  [ root_note   |-> root_note,
          mode        |-> Val(best.best_mode),
          camelot_key |-> CamelotMapGet(<<root_note, Val(best.best_mode)>>),
          confidence  |-> confidence(best.best_correlation) ]

(***************************************************************************)
(* SpecKeyDetect: KeyDetector.detect on an averaged chroma vector          *)
(***************************************************************************)

\* The key detector of AudioAnalyzer().
DefaultKeyDetector == [ sr |-> 22050, hop_length |-> 512 ]

\* The pitch classes that sound, with their weights, for a root of C: one
\* note, a fifth, the major and minor triads, the triads with a strong
\* root, and the tritone, the augmented triad and the diminished seventh,
\* which are their own transpositions and so correlate equally with more
\* than one rotation of a profile.
Shapes ==
    { (0 :> 1),
      (0 :> 1) @@ (7 :> 1),
      (0 :> 1) @@ (4 :> 1) @@ (7 :> 1),
      (0 :> 1) @@ (3 :> 1) @@ (7 :> 1),
      (0 :> 2) @@ (4 :> 1) @@ (7 :> 1),
      (0 :> 2) @@ (3 :> 1) @@ (7 :> 1),
      (0 :> 1) @@ (6 :> 1),
      (0 :> 1) @@ (4 :> 1) @@ (8 :> 1),
      (0 :> 1) @@ (3 :> 1) @@ (6 :> 1) @@ (9 :> 1) }

\* The chroma vector of a shape on a root.
Chroma(shape, root) ==
    [i \in 1..12 |->
        LET offset == (i - 1 - root) % 12
        IN  IF offset \in DOMAIN shape THEN shape[offset] ELSE 0]

\* Silence: no energy in any bin.
Silence == [i \in 1..12 |-> 0]

ChromaInputs ==
    {Silence} \cup { Chroma(shape, root) : shape \in Shapes, root \in 0..11 }

InitKeyDetect ==
    /\ self = DefaultKeyDetector
    /\ tracks = <<>>
    /\ pc = "call"
    /\ args \in [ chroma_avg : ChromaInputs ]
    /\ ret = None
    /\ raised = ""
    /\ files = {}
    /\ frame = None
    /\ analysis_jobs = NoJobs

Detect ==
    /\ pc = "call"
    /\ IF detect_raises(args.chroma_avg)
       THEN ret' = None /\ raised' = "TypeError"
       ELSE ret' = Some(detect(args.chroma_avg)) /\ raised' = ""
    /\ pc' = "KeyDetector.detect"
    /\ UNCHANGED <<self, tracks, args, files, frame, analysis_jobs>>

NextKeyDetect == Detect

SpecKeyDetect == InitKeyDetect /\ [][NextKeyDetect]_vars

(***************************************************************************)
(* Properties of KeyDetector.detect and CAMELOT_MAP (SpecKeyDetect)        *)
(***************************************************************************)

\* C15: on a chroma vector that is zero in all 12 bins detect does not
\* raise and returns root "C" with confidence exactly 0.0; on every input
\* it returns a confidence in [0, 1].
C15_SilenceDefault ==
    pc = "KeyDetector.detect" =>
        /\ raised = ""
        /\ Val(ret).confidence \in 0..1000
        /\ args.chroma_avg = Silence =>
               Val(ret).root_note = "C" /\ Val(ret).confidence = 0

\* The 24 (root, mode) pairs.
KeyPairs ==
    { <<PITCH_CLASSES[i], mode>> : i \in 1..12, mode \in {"major", "minor"} }

Digits == << "0", "1", "2", "3", "4", "5", "6", "7", "8", "9" >>

IsDigit(c) == \E i \in DOMAIN Digits : Digits[i] = c

DigitValue(c) == (CHOOSE i \in DOMAIN Digits : Digits[i] = c) - 1

\* int(s) raises ValueError: s is empty or has a character that is no digit
\* (the strings of the model have no sign, blank or underscore).
int_raises(s) == s = << >> \/ \E i \in DOMAIN s : ~IsDigit(s[i])

RECURSIVE int(_)
\* int(s) for a string of digits.
int(s) ==
    IF s = << >> THEN 0 ELSE 10 * int(DropLast(s)) + DigitValue(s[Len(s)])

RECURSIVE str(_)
\* str(n), which an f-string puts in for {n}.
str(n) ==
    IF n < 0 THEN << "-" >> \o str(-n)
    ELSE IF n < 10 THEN << Digits[n + 1] >>
    ELSE str(n \div 10) \o << Digits[(n % 10) + 1] >>

\* get_harmonic_compatible_keys with prev_num always number - 1.
CompatibleKeysNoWrap(camelot_key) ==
    IF Len(camelot_key) < 2 THEN << >>
    ELSE IF int_raises(DropLast(camelot_key)) THEN << >>
    ELSE LET number       == int(DropLast(camelot_key))
             letter       == UpperChar(camelot_key[Len(camelot_key)])
             other_letter == IF letter = "A" THEN "B" ELSE "A"
             prev_num     == number - 1
             next_num     == IF number = 12 THEN 1 ELSE number + 1
         IN  << camelot_key,
                str(number) \o << other_letter >>,
                str(prev_num) \o << letter >>,
                str(next_num) \o << letter >> >>

get_harmonic_compatible_keys(camelot_key) ==
    IF Len(camelot_key) < 2 THEN << >>
    ELSE IF int_raises(DropLast(camelot_key)) THEN << >>
    ELSE LET number       == int(DropLast(camelot_key))
             letter       == UpperChar(camelot_key[Len(camelot_key)])
             other_letter == IF letter = "A" THEN "B" ELSE "A"
             prev_num     == IF number = 1 THEN 12 ELSE number - 1
             next_num     == IF number = 12 THEN 1 ELSE number + 1
         IN  << camelot_key,
                str(number) \o << other_letter >>,
                str(prev_num) \o << letter >>,
                str(next_num) \o << letter >> >>

(***************************************************************************)
(* SpecHarmonic: get_harmonic_compatible_keys on a string                  *)
(***************************************************************************)

\* The characters of the strings of the model.
Alphabet == { Digits[i] : i \in DOMAIN Digits } \cup { "A", "B", "a", "b", "m" }

\* The longest string.
MaxKeyLen == 3

KeyStrings == UNION { [1..n -> Alphabet] : n \in 0..MaxKeyLen }

InitHarmonic ==
    /\ self = DefaultKeyDetector
    /\ tracks = <<>>
    /\ pc = "call"
    /\ args \in [ camelot_key : KeyStrings ]
    /\ ret = None
    /\ raised = ""
    /\ files = {}
    /\ frame = None
    /\ analysis_jobs = NoJobs

GetHarmonicCompatibleKeys ==
    /\ pc = "call"
    /\ ret' = get_harmonic_compatible_keys(args.camelot_key)
    /\ pc' = "get_harmonic_compatible_keys"
    /\ UNCHANGED <<self, tracks, args, raised, files, frame, analysis_jobs>>

NextHarmonic == GetHarmonicCompatibleKeys

SpecHarmonic == InitHarmonic /\ [][NextHarmonic]_vars

(***************************************************************************)
(* Properties of get_harmonic_compatible_keys (SpecHarmonic)               *)
(***************************************************************************)

\* The set of the elements of a list.
Elements(list) == { list[i] : i \in DOMAIN list }

\* The part of the string before its last character is no number.
NonNumeric(s) == \E i \in 1..(Len(s) - 1) : ~IsDigit(s[i])

\* C17: for a key nL of the wheel the result has exactly four keys: the
\* input, the same number with the other letter, and the same letter with
\* n - 1 and n + 1 around the wheel (12 before 1, 1 after 12); for "8A" it
\* is {8A, 8B, 7A, 9A}.  For an empty, a one-character or a non-numeric
\* string it is the empty list.
C17_FourCompatibleKeys ==
    pc = "get_harmonic_compatible_keys" =>
        /\ \A n \in 1..12, letter \in {"A", "B"} :
              args.camelot_key = WheelKey(n, letter) =>
                  /\ Len(ret) = 4
                  /\ Cardinality(Elements(ret)) = 4
                  /\ Elements(ret) =
                         { WheelKey(n, letter),
                           WheelKey(n, Opposite(letter)),
                           WheelKey(CounterClockwise(n), letter),
                           WheelKey(Clockwise(n), letter) }
        /\ args.camelot_key = Str("8A") =>
              Elements(ret) = { Str("8A"), Str("8B"), Str("7A"), Str("9A") }
        /\ (Len(args.camelot_key) <= 1 \/ NonNumeric(args.camelot_key)) =>
              ret = << >>

\* The call on "1A" has returned, with 12A as the key before it.
C17_Witness ==
    /\ pc = "get_harmonic_compatible_keys"
    /\ args.camelot_key = Str("1A")
    /\ ret = << Str("1A"), Str("1B"), Str("12A"), Str("2A") >>

(***************************************************************************)
(* BPMDetector.detect (backend/analysis/bpm_detector.py)                   *)
(*                                                                         *)
(* The three tempo estimates are whole numbers of beats per minute.        *)
(* Inside detect a tempo is a whole number of quarters of a BPM, which     *)
(* keeps t / 2 and the median of two tempos exact.  The returned BPM is a  *)
(* whole number of hundredths (round(final_bpm, 2) has nothing to round    *)
(* off a multiple of 0.25) and the returned confidence a whole number of   *)
(* thousandths.                                                            *)
(***************************************************************************)

\* b beats per minute, in quarters.
Quarters(b) == 4 * b

\* round(x, 2) of a tempo in quarters, in hundredths.
round2(x) == 25 * x

\* `60 <= t <= 200`
InBand(t) == Quarters(60) <= t /\ t <= Quarters(200)

\* The octave correction of one estimate: the list it adds to tempos.
OctaveCorrected(t) ==
    IF Quarters(30) <= t /\ t < Quarters(60) THEN << t * 2 >>
    ELSE IF t > Quarters(200) THEN << ExactDiv(t, 2) >>
    ELSE << >>

RECURSIVE Insert(_, _)
\* x put into an ascending list.
Insert(x, sorted) ==
    IF sorted = << >> \/ x <= Head(sorted) THEN << x >> \o sorted
    ELSE << Head(sorted) >> \o Insert(x, Tail(sorted))

RECURSIVE Ascending(_)
\* The list sorted.
Ascending(list) ==
    IF list = << >> THEN << >> ELSE Insert(Head(list), Ascending(Tail(list)))

\* np.median of a non-empty list.
median(tempos) ==
    LET sorted == Ascending(tempos)
        n      == Len(sorted)
    IN  IF n % 2 = 1 THEN sorted[(n + 1) \div 2]
        ELSE ExactDiv(sorted[n \div 2] + sorted[(n \div 2) + 1], 2)

\* n * n times the variance of the list (np.std is the root of the variance).
SpreadOf(tempos) == Len(tempos) * Sum(Times(tempos, tempos)) - Sum(tempos) * Sum(tempos)

\* round(1000 * (1 - sqrt(num / den))) for 0 <= num < den: with t the whole
\* thousandths of the root, the result is 1000 - t when the rest is below a
\* half and 1000 - t - 1 when it is above; it has no value on a rest of
\* exactly a half.
OneMinusRootInThousandths(num, den) ==
    LET t == CHOOSE k \in 0..999 :
                 /\ LeqFrac(k * k, 1000 * 1000, num, den)
                 /\ ~LeqFrac((k + 1) * (k + 1), 1000 * 1000, num, den)
        half == (2 * t + 1) * (2 * t + 1)
    IN  CHOOSE c \in {1000 - t, 1000 - t - 1} :
            IF c = 1000 - t
            THEN ~LeqFrac(half, 4 * 1000 * 1000, num, den)
            ELSE ~LeqFrac(num, den, half, 4 * 1000 * 1000)

\* round(confidence, 3) of detect: max(0.0, 1.0 - std / final_bpm) for more
\* than one estimate, 0.5 for one.
bpm_confidence(tempos, final_bpm) ==
    IF Len(tempos) > 1
    THEN LET num == SpreadOf(tempos)
             den == (Len(tempos) * final_bpm) * (Len(tempos) * final_bpm)
         IN  IF num >= den THEN 0 ELSE OneMinusRootInThousandths(num, den)
    ELSE 500

\* The list tempos of detect when it comes to the median: the estimates in
\* the band, or, if there is none, the octave corrections of the first two.
\* tempo_tempogram counts only if it is neither None nor 0.
Tempos(tempo_beat, tempo_onset, tempo_tempogram) ==
    LET estimates ==
            << Quarters(tempo_beat), Quarters(tempo_onset) >>
                \o (IF IsNone(tempo_tempogram) \/ Val(tempo_tempogram) = 0
                    THEN << >>
                    ELSE << Quarters(Val(tempo_tempogram)) >>)
        filtered == SelectSeq(estimates, InBand)
    IN  IF filtered # << >> THEN filtered
        ELSE OctaveCorrected(Quarters(tempo_beat))
                 \o OctaveCorrected(Quarters(tempo_onset))

\* BPMDetector.detect, from the three estimates on: (bpm, confidence).
bpm_detect(tempo_beat, tempo_onset, tempo_tempogram) ==
    LET tempos == Tempos(tempo_beat, tempo_onset, tempo_tempogram)
    IN  IF tempos = << >>
        THEN [ bpm |-> 100 * tempo_beat, confidence |-> 0 ]
        ELSE [ bpm        |-> round2(median(tempos)),
               confidence |-> bpm_confidence(tempos, median(tempos)) ]

(***************************************************************************)
(* SpecBpmDetect: BPMDetector.detect on three tempo estimates              *)
(***************************************************************************)

\* The BPM detector of AudioAnalyzer().
DefaultBpmDetector == [ sr |-> 22050, hop_length |-> 512 ]

\* Estimates below 30, in [30, 60), at both ends of the band and inside it,
\* and above 200.
TempoValues == { 20, 45, 59, 60, 100, 126, 128, 130, 200, 201, 250, 500 }

\* _estimate_from_tempogram gives None, or a tempo of the band, or one
\* outside it when the tempogram has no peak in the band.
TempogramValues == { None, Some(60), Some(100), Some(128), Some(200), Some(500) }

InitBpmDetect ==
    /\ self = DefaultBpmDetector
    /\ tracks = <<>>
    /\ pc = "call"
    /\ args \in [ tempo_beat : TempoValues, tempo_onset : TempoValues,
                  tempo_tempogram : TempogramValues ]
    /\ ret = None
    /\ raised = ""
    /\ files = {}
    /\ frame = None
    /\ analysis_jobs = NoJobs

BpmDetect ==
    /\ pc = "call"
    /\ ret' = bpm_detect(args.tempo_beat, args.tempo_onset, args.tempo_tempogram)
    /\ pc' = "BPMDetector.detect"
    /\ UNCHANGED <<self, tracks, args, raised, files, frame, analysis_jobs>>

NextBpmDetect == BpmDetect

SpecBpmDetect == InitBpmDetect /\ [][NextBpmDetect]_vars

(***************************************************************************)
(* Properties of BPMDetector.detect (SpecBpmDetect)                        *)
(***************************************************************************)

\* The estimates detect collects, in quarters of a BPM.
Estimates ==
    << Quarters(args.tempo_beat), Quarters(args.tempo_onset) >>
        \o (IF IsNone(args.tempo_tempogram) THEN << >>
            ELSE << Quarters(Val(args.tempo_tempogram)) >>)

\* The estimates that survive: those within [60, 200], or, when there is
\* none, the octave-corrected estimates that are within [60, 200].
Survivors ==
    IF SelectSeq(Estimates, InBand) # << >>
    THEN SelectSeq(Estimates, InBand)
    ELSE SelectSeq(OctaveCorrected(Quarters(args.tempo_beat))
                       \o OctaveCorrected(Quarters(args.tempo_onset)), InBand)

\* The number of elements of s below x, and at most x.
Below(s, x) == Cardinality({ i \in DOMAIN s : s[i] < x })

AtMost(s, x) == Cardinality({ i \in DOMAIN s : s[i] <= x })

\* The element of rank r (from 0) of s.
Ranked(s, r) ==
    CHOOSE x \in { s[i] : i \in DOMAIN s } : Below(s, x) <= r /\ r < AtMost(s, x)

\* Twice the median of s: the sum of its two middle ranks (which are one
\* rank when s has an odd length).
TwiceMedian(s) == Ranked(s, (Len(s) - 1) \div 2) + Ranked(s, Len(s) \div 2)

\* C18: the estimates outside [60, 200] are discarded; if at least one
\* estimate survives, the final BPM is the median of the surviving
\* estimates; if none survives even after octave correction, the raw
\* beat-tracking estimate is returned with confidence exactly 0.
C18_MedianOfSurvivors ==
    pc = "BPMDetector.detect" =>
        /\ Survivors # << >> => 2 * ret.bpm = 25 * TwiceMedian(Survivors)
        /\ Survivors = << >> =>
               ret.bpm = 100 * args.tempo_beat /\ ret.confidence = 0

\* k thousandths is max(0, 1 - sqrt(num / den)) to the nearest thousandth.
NearestToOneMinusRoot(k, num, den) ==
    IF num >= den THEN k = 0
    ELSE LET m == 1000 - k
         IN  /\ m >= 0
             /\ m > 0 => LeqFrac((2 * m - 1) * (2 * m - 1), 4 * 1000 * 1000, num, den)
             /\ LeqFrac(num, den, (2 * m + 1) * (2 * m + 1), 4 * 1000 * 1000)

\* C19: the confidence is max(0, 1 - stddev / final_bpm) of the surviving
\* estimates when two or more survive and 0.5 when exactly one survives; it
\* is always in [0, 1]; three estimates all equal to X in [60, 200] give the
\* final BPM X and the confidence 1.0.
C19_ConfidenceFormula ==
    pc = "BPMDetector.detect" =>
        /\ ret.confidence \in 0..1000
        /\ Len(Survivors) >= 2 =>
               LET n         == Len(Survivors)
                   final_bpm == ExactDiv(ret.bpm, 25)
               IN  NearestToOneMinusRoot(ret.confidence, SpreadOf(Survivors),
                                         (n * final_bpm) * (n * final_bpm))
        /\ Len(Survivors) = 1 => ret.confidence = 500
        /\ \A X \in 60..200 :
               ( /\ args.tempo_beat = X
                 /\ args.tempo_onset = X
                 /\ args.tempo_tempogram = Some(X) ) =>
                   ret.bpm = 100 * X /\ ret.confidence = 1000

(***************************************************************************)
(* EmbeddingGenerator.generate (backend/analysis/embedding_generator.py)   *)
(*                                                                         *)
(* The feature extractors of librosa are the environment: generate is      *)
(* modelled from the list `features` on.  A feature value is a whole       *)
(* number.  A vector is a record [num, den2] whose element i is            *)
(* num[i] / sqrt(den2), so that the division by the norm is exact; the     *)
(* final astype(np.float32) rounds each element and is not modelled.       *)
(***************************************************************************)

\* The lengths of the arrays appended to `features`, in order, for n_mfcc
\* MFCC coefficients.
FeatureLengths(n_mfcc) ==
    << n_mfcc, n_mfcc, n_mfcc, n_mfcc,
       12, 12,
       2, 2, 2, 2, 2,
       1, 2, 8,
       2, 2,
       6, 6 >>

\* The numbered section of generate (1 MFCC .. 7 tonnetz) that appends
\* feature k.
SectionOf(k) ==
    << 1, 1, 1, 1, 2, 2, 3, 3, 3, 3, 3, 4, 4, 4, 5, 6, 7, 7 >>[k]

\* An array of n elements x.
Full(n, x) == [i \in 1..n |-> x]

\* np.concatenate([np.atleast_1d(f).flatten() for f in features]) of the
\* first k features.
RECURSIVE concatenate(_, _)
concatenate(features, k) ==
    IF k = 0 THEN << >> ELSE concatenate(features, k - 1) \o features[k]

\* The sum of x[lo] ^ 2 .. x[hi] ^ 2, by halves.
RECURSIVE SumSquares(_, _, _)
SumSquares(x, lo, hi) ==
    IF lo > hi THEN 0
    ELSE IF lo = hi THEN x[lo] * x[lo]
    ELSE LET mid == (lo + hi) \div 2
         IN  SumSquares(x, lo, mid) + SumSquares(x, mid + 1, hi)

\* The square of np.linalg.norm(embedding).
norm2(embedding) == SumSquares(embedding, 1, Len(embedding))

\* embedding / norm, done only if norm > 0.
normalized(embedding) ==
    IF norm2(embedding) > 0
    THEN [ num |-> embedding, den2 |-> norm2(embedding) ]
    ELSE [ num |-> embedding, den2 |-> 1 ]

target_dim == 256

\* np.pad to target_dim elements, or embedding[:target_dim].
pad_or_truncate(v) ==
    IF Len(v.num) < target_dim
    THEN [ num  |-> v.num \o Full(target_dim - Len(v.num), 0),
           den2 |-> v.den2 ]
    ELSE [ num |-> SubSeq(v.num, 1, target_dim), den2 |-> v.den2 ]

\* EmbeddingGenerator.generate from the extracted features on.
generate(features) ==
    pad_or_truncate(normalized(concatenate(features, Len(features))))

(***************************************************************************)
(* SpecEmbedding: generate on the features of one audio signal             *)
(***************************************************************************)

\* The default of 20 MFCC coefficients (141 features), 48 (253, the longest
\* vector that is padded), 49 (257, the shortest that is truncated), 64.
NMfccValues == { 20, 48, 49, 64 }

\* The value of every feature of a section: 0, as for the zeros that
\* replace a failed tonnetz, or 1.
FeatureValues == { 0, 1 }

\* The feature list of generate whose section s has the value value[s].
Features(n_mfcc, value) ==
    [ k \in DOMAIN FeatureLengths(n_mfcc) |->
        Full(FeatureLengths(n_mfcc)[k], value[SectionOf(k)]) ]

\* EmbeddingGenerator(n_mfcc = n).
EmbeddingGenerator(n) ==
    [ sr |-> 22050, hop_length |-> 512, n_mfcc |-> n, n_mels |-> 128 ]

InitEmbedding ==
    /\ self \in { EmbeddingGenerator(n) : n \in NMfccValues }
    /\ tracks = <<>>
    /\ pc = "call"
    /\ \E value \in [ 1..7 -> FeatureValues ] :
           args = [ features |-> Features(self.n_mfcc, value) ]
    /\ ret = None
    /\ raised = ""
    /\ files = {}
    /\ frame = None
    /\ analysis_jobs = NoJobs

Generate ==
    /\ pc = "call"
    /\ ret' = generate(args.features)
    /\ pc' = "EmbeddingGenerator.generate"
    /\ UNCHANGED <<self, tracks, args, raised, files, frame, analysis_jobs>>

NextEmbedding == Generate

SpecEmbedding == InitEmbedding /\ [][NextEmbedding]_vars

(***************************************************************************)
(* Properties of EmbeddingGenerator.generate (SpecEmbedding)               *)
(***************************************************************************)

\* The concatenated (pre-pad) feature vector of the call.
PrePad == concatenate(args.features, Len(args.features))

\* C20: generate returns exactly 256 elements whatever the length of the
\* concatenated feature vector; the returned vector has L2 norm 1 whenever
\* the concatenated vector is non-zero, and is all zeros, with no error,
\* when the concatenated vector is all zeros.
C20_UnitNormAndDimension ==
    pc = "EmbeddingGenerator.generate" =>
        /\ raised = ""
        /\ Len(ret.num) = 256
        /\ ret.den2 > 0
        /\ (\E i \in DOMAIN PrePad : PrePad[i] # 0) =>
               SumSquares(ret.num, 1, Len(ret.num)) = ret.den2
        /\ (\A i \in DOMAIN PrePad : PrePad[i] = 0) =>
               \A i \in DOMAIN ret.num : ret.num[i] = 0

(***************************************************************************)
(* The BPM pre-filter against _score_bpm (SpecBpm)                         *)
(***************************************************************************)

\* C23: for known non-zero BPMs c and d, if _score_bpm(c, d) is greater
\* than 0 then d lies in at least one of the ranges of
\* _get_compatible_bpm_ranges(c), so the candidate reaches scoring.
C23_PrefilterKeepsMatches ==
    ( /\ pc = "_score_bpm"
      /\ ~NoBpm(args.current_bpm)
      /\ ~NoBpm(args.candidate_bpm)
      /\ ret > 0 ) =>
        LET bpm_ranges == _get_compatible_bpm_ranges(self.bpm_tolerance,
                                                     Val(args.current_bpm))
        IN  \E i \in DOMAIN bpm_ranges : InRange(args.candidate_bpm, bpm_ranges[i])

(***************************************************************************)
(* Octave correction of BPMDetector.detect (SpecBpmDetect)                 *)
(***************************************************************************)

\* C24: the [60, 200] filter is applied again to the octave-corrected
\* estimates: whenever detect returns a non-zero confidence, the final BPM
\* it returns lies in [60, 200].
C24_FinalBpmInBand ==
    (pc = "BPMDetector.detect" /\ ret.confidence # 0) =>
        100 * 60 <= ret.bpm /\ ret.bpm <= 100 * 200

(***************************************************************************)
(* EmbeddingGenerator.generate_waveform_data                               *)
(* (backend/analysis/embedding_generator.py)                               *)
(*                                                                         *)
(* A sample is a whole number.  A value of the preview is a record         *)
(* [num, den] that stands for sqrt(num / den): the RMS of a segment is the *)
(* root of its mean square and the division by max_val divides under the  *)
(* root, so both are exact.                                                *)
(***************************************************************************)

\* v <= w for two values.
LeqRoot(v, w) == v.num * w.den <= w.num * v.den

\* generate_waveform_data(y, num_samples) for num_samples > 0.
generate_waveform_data(y, num_samples) ==
    LET samples_per_bin == Max(1, Len(y) \div num_samples)
        start(i)   == i * samples_per_bin
        end(i)     == Min(start(i) + samples_per_bin, Len(y))
        rms(i)     == IF end(i) - start(i) > 0
                      THEN [ num |-> SumSquares(y, start(i) + 1, end(i)),
                             den |-> end(i) - start(i) ]
                      ELSE [ num |-> 0, den |-> 1 ]
        waveform   == [ k \in 1..num_samples |-> rms(k - 1) ]
        values     == { waveform[k] : k \in DOMAIN waveform }
        max_val    == CHOOSE v \in values : \A w \in values : LeqRoot(w, v)
    IN  IF max_val.num > 0
        THEN [ k \in DOMAIN waveform |->
                 [ num |-> waveform[k].num * max_val.den,
                   den |-> waveform[k].den * max_val.num ] ]
        ELSE waveform

(***************************************************************************)
(* SpecWaveform: generate_waveform_data on one waveform                    *)
(***************************************************************************)

\* The longest of the short waveforms.
MaxWaveformLen == 4

\* The default of num_samples.
DefaultNumSamples == 800

\* Silence, a negative and a positive sample.
SampleValues == { -1, 0, 2 }

\* Every waveform of up to MaxWaveformLen samples.
ShortWaveforms == UNION { [ 1..n -> SampleValues ] : n \in 0..MaxWaveformLen }

\* Constant non-zero waveforms that are shorter than the default preview,
\* as long, and longer with and without a remainder.
ConstantWaveforms ==
    { Full(n, c) : n \in { 1, 400, 799, 800, 801, 1600, 1700 }, c \in { -1, 2 } }

\* The calls: a short waveform with a preview of 0 to 3 values, or a
\* constant waveform with the default preview.
WaveformCalls ==
    [ y : ShortWaveforms, num_samples : 0..3 ]
        \cup [ y : ConstantWaveforms, num_samples : { DefaultNumSamples } ]

InitWaveform ==
    /\ self = EmbeddingGenerator(20)
    /\ tracks = <<>>
    /\ pc = "call"
    /\ args \in WaveformCalls
    /\ ret = None
    /\ raised = ""
    /\ files = {}
    /\ frame = None
    /\ analysis_jobs = NoJobs

\* len(y) // num_samples raises ZeroDivisionError for num_samples = 0.
GenerateWaveformData ==
    /\ pc = "call"
    /\ IF args.num_samples = 0
       THEN raised' = "ZeroDivisionError" /\ ret' = None
       ELSE raised' = "" /\ ret' = generate_waveform_data(args.y, args.num_samples)
    /\ pc' = "generate_waveform_data"
    /\ UNCHANGED <<self, tracks, args, files, frame, analysis_jobs>>

NextWaveform == GenerateWaveformData

SpecWaveform == InitWaveform /\ [][NextWaveform]_vars

(***************************************************************************)
(* Properties of generate_waveform_data (SpecWaveform)                     *)
(***************************************************************************)

\* C21: for a waveform of any length whose samples all equal one constant
\* non-zero value, generate_waveform_data with num_samples = 800 returns a
\* preview of 800 values in which every value equals 1.0.
C21_ConstantWaveformAllOnes ==
    ( /\ pc = "generate_waveform_data"
      /\ args.num_samples = 800
      /\ Len(args.y) > 0
      /\ args.y[1] # 0
      /\ \A k \in DOMAIN args.y : args.y[k] = args.y[1] ) =>
        /\ raised = ""
        /\ Len(ret) = 800
        /\ \A k \in DOMAIN ret : ret[k].num = ret[k].den

\* The mean square of bin i (from 0) when the bins have bin_len samples:
\* the samples i * bin_len + 1 .. (i + 1) * bin_len that exist; 0 for an
\* empty bin.
BinMeanSquare(i, bin_len) ==
    LET lo == i * bin_len + 1
        hi == Min((i + 1) * bin_len, Len(args.y))
    IN  IF hi < lo THEN [ num |-> 0, den |-> 1 ]
        ELSE [ num |-> SumSquares(args.y, lo, hi), den |-> hi - lo + 1 ]

\* The bin lengths with which num_samples contiguous bins hold every sample,
\* all of them full except possibly the last.
PartitionLengths ==
    { bin_len \in 1..(Len(args.y) + 1) :
        /\ (args.num_samples - 1) * bin_len <= Len(args.y)
        /\ Len(args.y) <= args.num_samples * bin_len }

\* preview[k] is the RMS of bin k - 1 divided by the largest RMS of the
\* bins, for every k.
NormalizedRmsOfBins(preview, bin_len) ==
    LET means == [ k \in DOMAIN preview |-> BinMeanSquare(k - 1, bin_len) ]
        all   == { means[k] : k \in DOMAIN means }
        top   == CHOOSE v \in all : \A w \in all : LeqRoot(w, v)
    IN  \A k \in DOMAIN preview :
            IF top.num > 0
            THEN preview[k].num * means[k].den * top.num
                     = means[k].num * top.den * preview[k].den
            ELSE preview[k].num = 0

\* C26: for every waveform length and num_samples, generate_waveform_data
\* returns exactly num_samples values in [0, 1], value i being the
\* normalized RMS of bin i, and the bins are contiguous, disjoint and
\* together contain every sample (only the last bin may be shorter).
C26_BinsPartitionWaveform ==
    pc = "generate_waveform_data" =>
        /\ raised = ""
        /\ Len(ret) = args.num_samples
        /\ \A k \in DOMAIN ret : 0 <= ret[k].num /\ ret[k].num <= ret[k].den
        /\ \E bin_len \in PartitionLengths : NormalizedRmsOfBins(ret, bin_len)

(***************************************************************************)
(* AudioAnalyzer._compute_energy (backend/analysis/audio_analyzer.py)      *)
(*                                                                         *)
(* A sample is a whole number of hundredths and a multiple of 10, the mean *)
(* of the magnitude spectrum a whole number, and the energy returned a     *)
(* whole number of thousandths.  A sample of librosa.load is at most 1.0   *)
(* in magnitude, so the RMS is at most 100 hundredths.  The energy is a    *)
(* rounded value: in thousandths combined * 5 is                           *)
(* 25 * sqrt(sum of squares / len) + 25 * spectral_energy, which is never  *)
(* half-way between two thousandths for such samples.  librosa.stft is the *)
(* environment: its result is an input of the call, and on an empty signal *)
(* it raises or returns a spectrum, depending on the librosa installed.    *)
(***************************************************************************)

\* The whole number nearest to sqrt(num / den), which is at most limit.
NearestRoot(num, den, limit) ==
    CHOOSE k \in 0..limit :
        /\ k > 0 => (2 * k - 1) * (2 * k - 1) * den <= 4 * num
        /\ 4 * num < (2 * k + 1) * (2 * k + 1) * den

\* _compute_energy(y) when np.mean(np.abs(librosa.stft(y))) is
\* spectral_energy.  For an empty y np.mean(y ** 2) is NaN, combined is NaN
\* and min(1.0, NaN) is 1.0, since NaN < 1.0 is false.
_compute_energy(y, spectral_energy) ==
    IF Len(y) = 0 THEN 1000
    ELSE Min(1000, NearestRoot(625 * SumSquares(y, 1, Len(y)), Len(y), 25 * 100)
                       + 25 * spectral_energy)

(***************************************************************************)
(* SpecComputeEnergy: _compute_energy on one waveform                      *)
(***************************************************************************)

\* The longest waveform.
MaxEnergyLen == 3

\* Samples -1.0, 0.0, 0.1 and 0.3.
SampleLevels == { -100, 0, 10, 30 }

\* What librosa.stft does: it raises (an empty signal only), or returns a
\* spectrum with this mean magnitude.
StftOutcomes(y) ==
    IF Len(y) = 0 THEN { None, Some(0) } ELSE { Some(0), Some(1), Some(20) }

InitComputeEnergy ==
    /\ self = DefaultAnalyzer
    /\ tracks = <<>>
    /\ pc = "call"
    /\ \E n \in 0..MaxEnergyLen : \E y \in [ 1..n -> SampleLevels ] :
           \E stft \in StftOutcomes(y) : args = [ y |-> y, stft |-> stft ]
    /\ ret = None
    /\ raised = ""
    /\ files = {}
    /\ frame = None
    /\ analysis_jobs = NoJobs

ComputeEnergy ==
    /\ pc = "call"
    /\ IF IsNone(args.stft)
       THEN raised' = "ParameterError" /\ ret' = None
       ELSE raised' = "" /\ ret' = Some(_compute_energy(args.y, Val(args.stft)))
    /\ pc' = "_compute_energy"
    /\ UNCHANGED <<self, tracks, args, files, frame, analysis_jobs>>

NextComputeEnergy == ComputeEnergy

SpecComputeEnergy == InitComputeEnergy /\ [][NextComputeEnergy]_vars

(***************************************************************************)
(* Properties of _compute_energy (SpecComputeEnergy)                       *)
(***************************************************************************)

\* C22: _compute_energy returns a value in [0, 1] for every waveform, and
\* for an empty waveform it returns exactly 0.0 without raising.
C22_EnergyInUnitInterval ==
    pc = "_compute_energy" =>
        /\ raised = ""
        /\ Val(ret) \in 0..1000
        /\ Len(args.y) = 0 => Val(ret) = 0

(***************************************************************************)
(* The tie-break of KeyDetector.detect (SpecKeyDetect)                     *)
(***************************************************************************)

\* The 24 candidates in the order of evaluation, numbered from 0: rotation
\* 0 major, rotation 0 minor, rotation 1 major, ...
Rotation(c) == c \div 2

ModeOf(c) == IF c % 2 = 0 THEN "major" ELSE "minor"

\* The correlation of the call's chroma vector with candidate c.
CorrelationOf(c) ==
    corrcoef(args.chroma_avg,
             roll(IF c % 2 = 0 THEN MAJOR_PROFILE ELSE MINOR_PROFILE, Rotation(c)))

\* The correlations of the 24 candidates.
Correlations == [ c \in 0..23 |-> CorrelationOf(c) ]

\* Candidate c has the maximum of the correlations corr.
HasMaximum(corr, c) ==
    /\ ~corr[c].nan
    /\ \A d \in DOMAIN corr : ~corr[d].nan /\ LeqNumber(corr[d], corr[c])

\* Candidate c is the first that has the maximum.
FirstMaximum(corr, c) ==
    HasMaximum(corr, c) /\ \A b \in 0..(c - 1) : ~HasMaximum(corr, b)

\* C27: among the 24 candidates in the order rotation 0..11 and, within a
\* rotation, major before minor, detect returns the first whose correlation
\* equals the maximum over all 24; a later candidate with an equal
\* correlation never replaces it.
C27_FirstEvaluatedWins ==
    pc = "KeyDetector.detect" =>
        LET corr == Correlations
        IN  \A c \in 0..23 :
                FirstMaximum(corr, c) =>
                    /\ raised = ""
                    /\ Val(ret).root_note = PITCH_CLASSES[Rotation(c) + 1]
                    /\ Val(ret).mode = ModeOf(c)

\* A tritone correlates equally with the major keys on its two notes, and
\* the one evaluated first is returned.
C27_Witness ==
    /\ pc = "KeyDetector.detect"
    /\ raised = ""
    /\ LET corr == Correlations
       IN  \E c \in 0..23 : \E d \in (c + 1)..23 :
               /\ FirstMaximum(corr, c)
               /\ HasMaximum(corr, d)
               /\ Val(ret).root_note = PITCH_CLASSES[Rotation(c) + 1]
               /\ Val(ret).mode = ModeOf(c)

(***************************************************************************)
(* The harmonic-key helpers of the engine and of the tracks route          *)
(* (backend/recommend/engine.py, backend/api/routes/tracks.py)             *)
(*                                                                         *)
(* A key is the tuple of its characters, as for                            *)
(* get_harmonic_compatible_keys.                                           *)
(***************************************************************************)

\* RecommendationEngine.get_harmonic_keys without the key itself.
GetHarmonicKeysAdjacentOnly(key) == CamelotGet(upper(key))

\* RecommendationEngine.get_harmonic_keys
get_harmonic_keys(key) == << upper(key) >> \o CamelotGet(upper(key))

\* The table of the tracks route.
camelot_wheel ==
       ("1A" :> <<"1A", "12A", "2A", "1B">>)
    @@ ("2A" :> <<"2A", "1A", "3A", "2B">>)
    @@ ("3A" :> <<"3A", "2A", "4A", "3B">>)
    @@ ("4A" :> <<"4A", "3A", "5A", "4B">>)
    @@ ("5A" :> <<"5A", "4A", "6A", "5B">>)
    @@ ("6A" :> <<"6A", "5A", "7A", "6B">>)
    @@ ("7A" :> <<"7A", "6A", "8A", "7B">>)
    @@ ("8A" :> <<"8A", "7A", "9A", "8B">>)
    @@ ("9A" :> <<"9A", "8A", "10A", "9B">>)
    @@ ("10A" :> <<"10A", "9A", "11A", "10B">>)
    @@ ("11A" :> <<"11A", "10A", "12A", "11B">>)
    @@ ("12A" :> <<"12A", "11A", "1A", "12B">>)
    @@ ("1B" :> <<"1B", "12B", "2B", "1A">>)
    @@ ("2B" :> <<"2B", "1B", "3B", "2A">>)
    @@ ("3B" :> <<"3B", "2B", "4B", "3A">>)
    @@ ("4B" :> <<"4B", "3B", "5B", "4A">>)
    @@ ("5B" :> <<"5B", "4B", "6B", "5A">>)
    @@ ("6B" :> <<"6B", "5B", "7B", "6A">>)
    @@ ("7B" :> <<"7B", "6B", "8B", "7A">>)
    @@ ("8B" :> <<"8B", "7B", "9B", "8A">>)
    @@ ("9B" :> <<"9B", "8B", "10B", "9A">>)
    @@ ("10B" :> <<"10B", "9B", "11B", "10A">>)
    @@ ("11B" :> <<"11B", "10B", "12B", "11A">>)
    @@ ("12B" :> <<"12B", "11B", "1B", "12A">>)

\* get_harmonic_keys of the tracks route: camelot_wheel.get(key.upper(), [key])
route_get_harmonic_keys(key) ==
    IF \E s \in DOMAIN camelot_wheel : Str(s) = upper(key)
    THEN LET s == CHOOSE s \in DOMAIN camelot_wheel : Str(s) = upper(key)
         IN  [i \in DOMAIN camelot_wheel[s] |-> Str(camelot_wheel[s][i])]
    ELSE << key >>

(***************************************************************************)
(* SpecHarmonicKeys: one of the three helpers on a key                     *)
(***************************************************************************)

InitHarmonicKeys ==
    /\ self = DefaultEngine
    /\ tracks = <<>>
    /\ pc = "call"
    /\ \E s \in DOMAIN Chars : args = [ key |-> Str(s) ]
    /\ ret = None
    /\ raised = ""
    /\ files = {}
    /\ frame = None
    /\ analysis_jobs = NoJobs

DetectorGetHarmonicCompatibleKeys ==
    /\ pc = "call"
    /\ ret' = get_harmonic_compatible_keys(args.key)
    /\ pc' = "KeyDetector.get_harmonic_compatible_keys"
    /\ UNCHANGED <<self, tracks, args, raised, files, frame, analysis_jobs>>

EngineGetHarmonicKeys ==
    /\ pc = "call"
    /\ ret' = get_harmonic_keys(args.key)
    /\ pc' = "RecommendationEngine.get_harmonic_keys"
    /\ UNCHANGED <<self, tracks, args, raised, files, frame, analysis_jobs>>

RouteGetHarmonicKeys ==
    /\ pc = "call"
    /\ ret' = route_get_harmonic_keys(args.key)
    /\ pc' = "tracks.get_harmonic_keys"
    /\ UNCHANGED <<self, tracks, args, raised, files, frame, analysis_jobs>>

NextHarmonicKeys ==
    \/ DetectorGetHarmonicCompatibleKeys
    \/ EngineGetHarmonicKeys
    \/ RouteGetHarmonicKeys

SpecHarmonicKeys == InitHarmonicKeys /\ [][NextHarmonicKeys]_vars

(***************************************************************************)
(* Symmetry of the key compatibility (SpecKey)                             *)
(***************************************************************************)

\* The keys 1A .. 12B.
TableKeys == DOMAIN CAMELOT_ADJACENT

\* C28: for every pair of keys (a, b) in 1A..12B, _score_key(a, b) equals
\* _score_key(b, a), and b is listed under a in CAMELOT_ADJACENT exactly
\* when a is listed under b.
C28_KeyScoreSymmetric ==
    ( /\ pc = "_score_key"
      /\ ~IsNone(args.current_key)
      /\ ~IsNone(args.candidate_key)
      /\ Val(args.current_key) \in TableKeys
      /\ Val(args.candidate_key) \in TableKeys ) =>
        /\ ret = _score_key(args.candidate_key, args.current_key)
        /\ InList(Val(args.candidate_key), CAMELOT_ADJACENT[Val(args.current_key)])
               <=> InList(Val(args.current_key), CAMELOT_ADJACENT[Val(args.candidate_key)])

\* 12A and its relative major 12B score 0.9 in both orders.
C28_Witness ==
    /\ pc = "_score_key"
    /\ args.current_key = Some("12A")
    /\ args.candidate_key = Some("12B")
    /\ ret = Tenths(9)
    /\ _score_key(Some("12B"), Some("12A")) = Tenths(9)

(***************************************************************************)
(* Agreement of the harmonic-key helpers (SpecHarmonicKeys)                *)
(***************************************************************************)

\* The keys that _score_key scores 0.9 against the key named s.
ScoredAdjacent(s) ==
    { Str(t) : t \in { t \in TableKeys : _score_key(Some(s), Some(t)) = Tenths(9) } }

\* C29: for every key k in 1A..12B the three helpers return the same set
\* of four keys, and that set is {k} together with the keys that
\* _score_key scores 0.9 against k.
C29_HelpersAgree ==
    \A s \in TableKeys :
        (pc # "call" /\ args.key = Str(s)) =>
            /\ Elements(ret) = Elements(get_harmonic_compatible_keys(args.key))
            /\ Elements(ret) = Elements(get_harmonic_keys(args.key))
            /\ Elements(ret) = Elements(route_get_harmonic_keys(args.key))
            /\ Cardinality(Elements(ret)) = 4
            /\ Elements(ret) = { Str(s) } \cup ScoredAdjacent(s)

\* The engine's helper on 12B: 12B, 11B, 1B and 12A.
C29_Witness ==
    /\ pc = "RecommendationEngine.get_harmonic_keys"
    /\ args.key = Str("12B")
    /\ Elements(ret) = { Str("12B"), Str("11B"), Str("1B"), Str("12A") }

(***************************************************************************)
(* The analysis jobs (backend/api/routes/analysis.py)                      *)
(*                                                                         *)
(* queue_analysis runs to its response in one step: nothing it awaits      *)
(* touches analysis_jobs.  process_analysis_job is a background coroutine  *)
(* whose frame, by job id, is kept in `frame`; a step of it is the code    *)
(* between two awaits at which analysis_jobs can be observed: the start,   *)
(* one iteration of the loop, the commit.  The rows of the tracks table    *)
(* are records [id, cloud_uri, is_analyzed].                               *)
(***************************************************************************)

\* One iteration of the loop with failed += 1 not followed by `continue`:
\* analyze_track(track.cloud_uri) then raises and failed is counted again.
ProcessTrackWithoutContinue(job, track, outcome) ==
    IF IsNone(track) \/ IsNone(Val(track).cloud_uri)
    THEN [ job EXCEPT !.failed = @ + 2 ]
    ELSE IF outcome = "returns"
    THEN [ job EXCEPT !.completed = @ + 1 ]
    ELSE [ job EXCEPT !.failed = @ + 1 ]

\* One iteration of the loop of process_analysis_job on the job's entry:
\* track is the row found (None if there is none) and outcome what
\* analyze_track does, "returns" or "raises".
process_track(job, track, outcome) ==
    IF IsNone(track) \/ IsNone(Val(track).cloud_uri)
    THEN [ job EXCEPT !.failed = @ + 1 ]
    ELSE IF outcome = "returns"
    THEN [ job EXCEPT !.completed = @ + 1 ]
    ELSE [ job EXCEPT !.failed = @ + 1 ]

\* What analyze_track can do with a source: a cloud URI always raises (see
\* _download_from_cloud), a local path is analysed or raises.
AnalyzeOutcomes(cloud_uri) ==
    IF _is_cloud_uri(Text[cloud_uri]) THEN { "raises" } ELSE { "returns", "raises" }

\* scalar_one_or_none() of the query for one track id.
TrackById(rows, track_id) ==
    IF \E k \in DOMAIN rows : rows[k].id = track_id
    THEN Some(rows[CHOOSE k \in DOMAIN rows : rows[k].id = track_id])
    ELSE None

(***************************************************************************)
(* SpecJobs: requests to queue_analysis and the background jobs            *)
(***************************************************************************)

\* The most jobs queued.
MaxJobs == 2

\* The ids uuid4 gives.
JobIds == { "job1", "job2", "job3" }

\* A local track, a track without a cloud_uri, and a cloud track that is
\* analysed already.
JobCatalogue ==
    << [ id |-> "t1", cloud_uri |-> Some("/m/a.mp3"), is_analyzed |-> FALSE ],
       [ id |-> "t2", cloud_uri |-> None, is_analyzed |-> FALSE ],
       [ id |-> "t3", cloud_uri |-> Some("gs://b/a.mp3"), is_analyzed |-> TRUE ] >>

\* The lists of track ids requested: none, ids of the table in several
\* orders, one id twice, and an id ("t9") that is not in the table.
RequestedTrackIds ==
    { << >>, << "t1" >>, << "t3" >>, << "t9" >>,
      << "t1", "t2" >>, << "t2", "t1" >>, << "t1", "t1" >>,
      << "t1", "t2", "t3" >> }

AnalysisRequests == [ track_ids : RequestedTrackIds, force : BOOLEAN ]

InitJobs ==
    /\ self = DefaultAnalyzer
    /\ tracks = JobCatalogue
    /\ pc = "call"
    /\ args = None
    /\ ret = None
    /\ raised = ""
    /\ files = {}
    /\ frame = None
    /\ analysis_jobs = NoJobs

\* POST /analysis/analyze
QueueAnalysis ==
    /\ Cardinality(DOMAIN analysis_jobs) < MaxJobs
    /\ \E request \in AnalysisRequests :
        LET found == SelectSeq(tracks, LAMBDA row :
                                   \E k \in DOMAIN request.track_ids :
                                       request.track_ids[k] = row.id)
            tracks_to_analyze ==
                IF request.force THEN found
                ELSE SelectSeq(found, LAMBDA row : ~row.is_analyzed)
            track_ids == [ k \in DOMAIN tracks_to_analyze |-> tracks_to_analyze[k].id ]
        IN  /\ args' = request
            /\ pc' = "queue_analysis"
            /\ IF Len(found) # Len(request.track_ids)
               THEN /\ raised' = "HTTPException"
                    /\ ret' = None
                    /\ UNCHANGED <<analysis_jobs, frame>>
               ELSE IF tracks_to_analyze = << >>
               THEN /\ raised' = ""
                    /\ ret' = [ job_id |-> "", tracks_queued |-> 0 ]
                    /\ UNCHANGED <<analysis_jobs, frame>>
               ELSE \E job_id \in JobIds \ DOMAIN analysis_jobs :
                    /\ raised' = ""
                    /\ ret' = [ job_id |-> job_id,
                                tracks_queued |-> Len(tracks_to_analyze) ]
                    /\ analysis_jobs' =
                           analysis_jobs @@
                           (job_id :> [ id |-> job_id, status |-> "pending",
                                        track_ids |-> track_ids,
                                        completed |-> 0, failed |-> 0 ])
                    /\ frame' = frame @@
                           (job_id :> [ pc |-> "queued", track_ids |-> track_ids,
                                        next |-> 1, analyzed |-> {} ])
    /\ UNCHANGED <<self, tracks, files>>

\* process_analysis_job starts: the status is set and the session opened.
ProcessStart ==
    \E job_id \in DOMAIN frame :
        /\ frame[job_id].pc = "queued"
        /\ analysis_jobs' = [ analysis_jobs EXCEPT ![job_id].status = "processing" ]
        /\ frame' = [ frame EXCEPT ![job_id].pc = "loop" ]
        /\ UNCHANGED <<self, tracks, pc, args, ret, raised, files>>

\* One iteration of `for track_id in track_ids`.
ProcessTrack ==
    \E job_id \in DOMAIN frame :
        /\ frame[job_id].pc = "loop"
        /\ frame[job_id].next <= Len(frame[job_id].track_ids)
        /\ LET track_id == frame[job_id].track_ids[frame[job_id].next]
               track    == TrackById(tracks, track_id)
               outcomes == IF IsNone(track) \/ IsNone(Val(track).cloud_uri)
                           THEN { "raises" }
                           ELSE AnalyzeOutcomes(Val(Val(track).cloud_uri))
           IN  \E outcome \in outcomes :
                   /\ analysis_jobs' =
                          [ analysis_jobs EXCEPT
                              ![job_id] = process_track(@, track, outcome) ]
                   /\ frame' =
                          [ frame EXCEPT
                              ![job_id].next = @ + 1,
                              ![job_id].analyzed =
                                  IF analysis_jobs'[job_id].completed
                                         > analysis_jobs[job_id].completed
                                  THEN @ \cup { track_id } ELSE @ ]
        /\ UNCHANGED <<self, tracks, pc, args, ret, raised, files>>

\* After the loop: session.commit() writes is_analyzed of the tracks
\* analysed and the status is set, or the commit raises and the coroutine
\* ends with the exception.
ProcessCommit ==
    \E job_id \in DOMAIN frame :
        /\ frame[job_id].pc = "loop"
        /\ frame[job_id].next > Len(frame[job_id].track_ids)
        /\ \/ /\ tracks' = [ k \in DOMAIN tracks |->
                               IF tracks[k].id \in frame[job_id].analyzed
                               THEN [ tracks[k] EXCEPT !.is_analyzed = TRUE ]
                               ELSE tracks[k] ]
              /\ analysis_jobs' = [ analysis_jobs EXCEPT ![job_id].status = "completed" ]
              /\ frame' = [ frame EXCEPT ![job_id].pc = "returned" ]
           \/ /\ frame' = [ frame EXCEPT ![job_id].pc = "raised" ]
              /\ UNCHANGED <<tracks, analysis_jobs>>
        /\ UNCHANGED <<self, pc, args, ret, raised, files>>

\* The background task is cancelled at one of its awaits: CancelledError is
\* no Exception, so the loop does not catch it.
ProcessCancel ==
    \E job_id \in DOMAIN frame :
        /\ frame[job_id].pc = "loop"
        /\ frame' = [ frame EXCEPT ![job_id].pc = "cancelled" ]
        /\ UNCHANGED <<self, tracks, pc, args, ret, raised, files, analysis_jobs>>

NextJobs ==
    \/ QueueAnalysis
    \/ ProcessStart
    \/ ProcessTrack
    \/ ProcessCommit
    \/ ProcessCancel

SpecJobs == InitJobs /\ [][NextJobs]_vars

(***************************************************************************)
(* Properties of the analysis jobs (SpecJobs)                              *)
(***************************************************************************)

\* The counters of a job, added.
Counted(job) == job.completed + job.failed

\* In every state: completed + failed is the number of tracks the loop has
\* been through, is at most the number of queued track ids, and is that
\* number when the status is "completed".
JobCountersInvariant ==
    \A job_id \in DOMAIN analysis_jobs :
        LET job == analysis_jobs[job_id]
        IN  /\ job.status \in { "pending", "processing", "completed" }
            /\ Counted(job) = frame[job_id].next - 1
            /\ Counted(job) <= Len(job.track_ids)
            /\ job.status = "completed" => Counted(job) = Len(job.track_ids)

\* In every step: a job is created "pending" with both counters 0, the
\* status moves only pending -> processing -> completed, and at most one
\* of the counters grows, by one.
JobStep ==
    /\ \A job_id \in DOMAIN analysis_jobs' \ DOMAIN analysis_jobs :
           /\ analysis_jobs'[job_id].status = "pending"
           /\ Counted(analysis_jobs'[job_id]) = 0
    /\ \A job_id \in DOMAIN analysis_jobs :
           /\ job_id \in DOMAIN analysis_jobs'
           /\ LET old == analysis_jobs[job_id]
                  new == analysis_jobs'[job_id]
              IN  /\ \/ new.status = old.status
                     \/ old.status = "pending" /\ new.status = "processing"
                     \/ old.status = "processing" /\ new.status = "completed"
                  /\ \/ new.completed = old.completed /\ new.failed = old.failed
                     \/ new.completed = old.completed + 1 /\ new.failed = old.failed
                     \/ new.completed = old.completed /\ new.failed = old.failed + 1

\* C30: for every analysis job, in every reachable state, the status only
\* moves pending -> processing -> completed; each queued track increments
\* exactly one of the counters completed and failed, so completed + failed
\* never exceeds the number of queued track ids; and when the status is
\* "completed", completed + failed equals the number of queued track ids.
C30_JobStateMachine == []JobCountersInvariant /\ [][JobStep]_vars

\* A job of two tracks is completed with one track analysed and one failed.
C30_Witness ==
    \E job_id \in DOMAIN analysis_jobs :
        /\ analysis_jobs[job_id].status = "completed"
        /\ Len(analysis_jobs[job_id].track_ids) = 2
        /\ analysis_jobs[job_id].completed = 1
        /\ analysis_jobs[job_id].failed = 1

====
